---- MODULE Spec2Model ----
(***************************************************************************)
(* State-machine model of tradedesk_dukascopy/export.py: the per-hour      *)
(* fetcher (_download_bi5), the bi5 codec (_probe_price_format,            *)
(* _decode_ticks), the aggregator (_ticks_to_candles) and the ordered      *)
(* parallel pipeline of export_range.                                      *)
(*                                                                         *)
(* Time is counted in milliseconds from 00:00 UTC of the first day.        *)
(* Prices and volumes of bars are kept doubled (x2) so that the "mid"      *)
(* side, (bid + ask) / 2, stays an integer.  Delays are in tenths of a     *)
(* second.                                                                 *)
(***************************************************************************)
EXTENDS Integers, Sequences, FiniteSets, TLC

\* ------------------------------------------------------------------------
\* Program constants
\* ------------------------------------------------------------------------
RETRY_BASE_DELAY == 5
RETRY_MAX_DELAY == 40
RETRY_BACKOFF_FACTOR == 2
DOWNLOAD_THREADS_PER_INSTRUMENT == 4
MIN_PAYLOAD_LEN == 64
RECORD_LEN == 20
DL_RETRIES == 3
DEFAULT_RETRIES == 3
HOUR_MS == 3600000
DAY_MS == 86400000

\* ------------------------------------------------------------------------
\* Bounds of the model
\* ------------------------------------------------------------------------
\* the start of the range lies at most this many half hours before the end
\* of the first day
MaxHalfHoursBack == 4
\* concurrent _download_bi5 callers of one cache path (SpecFetch)
NumFetchers == 3
\* largest retries argument of those calls
MaxRetries == 2
\* largest retries argument of the calls of one client in turn (SpecCall)
MaxAttempts == 6
\* start and end_exclusive of _iter_hours lie at most this many quarter hours
\* after the epoch of the model (SpecPure)
MaxQuarterHours == 12
\* longest symbol given to _symbol_normalise (SpecPure)
MaxSymbolLen == 3
\* tasks handed to run_parallel_exports, and largest max_workers (SpecRun)
NumTasks == 3
MaxWorkers == 2
\* hours of the range whose fetch pipeline is followed step by step
\* (SpecPool); more than the pool has threads
PoolHours == 6

\* ------------------------------------------------------------------------
\* Small helpers
\* ------------------------------------------------------------------------
\* Python's None where bytes are expected, and the absence of a cache file;
\* both are shaped like a body so that they compare with one
None == [size |-> -1, raw |-> <<>>, tail |-> 0, end |-> "None"]
NoFile == [size |-> -1, raw |-> <<>>, tail |-> 0, end |-> "NoFile"]
\* None where a string is expected
Unset == "None"
\* out_csv before anything is written
NoOutput == [written |-> FALSE, rows |-> <<>>]
\* no file at a path of the step-by-step fetcher
Absent == {0}

Min(a, b) == IF a < b THEN a ELSE b
Max(a, b) == IF a > b THEN a ELSE b

RECURSIVE Pow2(_)
Pow2(n) == IF n = 0 THEN 1 ELSE 2 * Pow2(n - 1)

RECURSIVE SumSeq(_)
SumSeq(s) == IF s = <<>> THEN 0 ELSE Head(s) + SumSeq(Tail(s))

RECURSIVE Flatten(_)
Flatten(ss) == IF ss = <<>> THEN <<>> ELSE Head(ss) \o Flatten(Tail(ss))

\* ------------------------------------------------------------------------
\* Symbol normalisation.  A symbol is a sequence of characters, one of each
\* kind that the function tells apart: a lower-case letter, an upper-case
\* letter, a digit, a separator and a blank.
\* ------------------------------------------------------------------------
Chars == {"a", "A", "1", ".", " "}

\* str.isspace, str.isalnum and str.upper of one character
IsSpace(ch) == ch = " "
IsAlnum(ch) == ch \in {"a", "A", "1"}
Upper(ch) == IF ch = "a" THEN "A" ELSE ch

\* str.strip()
RECURSIVE Strip(_)
Strip(s) ==
    IF s = <<>> THEN s
    ELSE IF IsSpace(Head(s)) THEN Strip(Tail(s))
    ELSE IF IsSpace(s[Len(s)]) THEN Strip(SubSeq(s, 1, Len(s) - 1))
    ELSE s

\* lines 63-80; result: [err |-> "", symbol |-> sequence] or
\* [err |-> "ValueError"]
_symbol_normalise(s) ==
    LET raw == Strip(s)
        cleaned == SelectSeq(raw, IsAlnum)
    IN  IF raw = <<>> THEN [err |-> "ValueError"]
        ELSE [err |-> "", symbol |-> [i \in 1..Len(cleaned) |->
                                        Upper(cleaned[i])]]

\* ------------------------------------------------------------------------
\* Hour Enumerator
\* ------------------------------------------------------------------------
\* datetime.replace(minute=0, second=0, microsecond=0)
FloorHour(t) == (t \div HOUR_MS) * HOUR_MS

\* (t).replace(hour=0, minute=0, second=0, microsecond=0)
FloorDay(t) == (t \div DAY_MS) * DAY_MS

RECURSIVE HoursFrom(_, _)
HoursFrom(cur, end_exclusive) ==
    IF cur < end_exclusive
    THEN <<cur>> \o HoursFrom(cur + HOUR_MS, end_exclusive)
    ELSE <<>>

\* a generator that starts at the hour of start without the step of line
\* 88-89
IterHoursFromFloor(start, end_exclusive) ==
    HoursFrom(FloorHour(start), end_exclusive)

\* lines 83-92
_iter_hours(start, end_exclusive) ==
    LET cur == FloorHour(start)
    IN  HoursFrom(IF cur < start THEN cur + HOUR_MS ELSE cur, end_exclusive)

\* end_exclusive of export_range: midnight after the day of end_utc_inclusive
EndExclusive(end_inclusive) == FloorDay(end_inclusive + DAY_MS)

\* ------------------------------------------------------------------------
\* bi5 payloads
\*
\* A compressed body is described by what the LZMA decoder makes of it:
\*   size : length of the compressed bytes
\*   raw  : the 20-byte records that decompress before the stream ends
\*   tail : further decompressed bytes after the last whole record (0..19)
\*   end  : "eos"       the stream ends with its end-of-stream marker
\*          "truncated" the compressed bytes stop before the marker
\*          "corrupt"   the decoder rejects the bytes
\* A record is <<ms, ask, bid, ask_vol, bid_vol>> of 32-bit big-endian words.
\* ------------------------------------------------------------------------
\* 2^23, the weight of the hidden bit of the mantissa
TWO23 == 8388608

\* The big-endian IEEE-754 single precision word with biased exponent e and
\* mantissa field m (sign 0), as struct.unpack(">f") reads it
F32Bits(e, m) == e * TWO23 + m

\* The words of 1.0, 2.0, 3.0 and 4.0 used by the payloads
F32_1 == F32Bits(127, 0)
F32_2 == F32Bits(128, 0)
F32_3 == F32Bits(128, TWO23 \div 2)
F32_4 == F32Bits(129, 0)

F32Exp(w) == (w \div TWO23) % 256
F32Man(w) == w % TWO23

\* math.isfinite of the word read as float32
F32Finite(w) == F32Exp(w) # 255

\* abs(f) < 1e-6 of the word read as float32 (sign bit clear):
\* below 2^-20, or in [2^-20, 2^-19) with mantissa under 1e-6 * 2^43
F32Tiny(w) ==
    \/ F32Exp(w) < 107
    \/ F32Exp(w) = 107 /\ TWO23 + F32Man(w) <= 8796093

\* 2^30; a word with the sign bit set is held as the negative number that
\* struct.unpack(">i") reads from the same four bytes
TWO30 == 128 * TWO23

\* the word of -f for the word of f
F32Neg(w) == (w - TWO30) - TWO30

\* value of a float32 word that holds a whole number
F32Value(w) ==
    LET e == F32Exp(w)
        m == TWO23 + F32Man(w)
        magnitude == IF e = 0 THEN 0
                     ELSE IF e >= 150 THEN m * Pow2(e - 150)
                     ELSE m \div Pow2(150 - e)
    IN  IF w < 0 THEN -magnitude ELSE magnitude

Rec(ms, ask, bid, av, bv) ==
    [ms |-> ms, ask |-> ask, bid |-> bid, ask_vol |-> av, bid_vol |-> bv]

EmptyBody == [size |-> 0, raw |-> <<>>, tail |-> 0, end |-> "truncated"]
TinyBody == [size |-> 10, raw |-> <<>>, tail |-> 3, end |-> "eos"]
\* one float-layout tick at the start of the hour
GoodA ==
    [size |-> 80, raw |-> <<Rec(0, F32_2, F32_1, F32_1, F32_1)>>,
     tail |-> 0, end |-> "eos"]
\* two float-layout ticks, half an hour apart
GoodB ==
    [size |-> 96,
     raw |-> <<Rec(0, F32_4, F32_2, F32_2, F32_1),
               Rec(HOUR_MS \div 2, F32_3, F32_3, F32_1, F32_2)>>,
     tail |-> 0, end |-> "eos"]
\* bytes that are no LZMA stream at all
Garbage == [size |-> 80, raw |-> <<>>, tail |-> 0, end |-> "corrupt"]
\* a stream cut off after its first record
Truncated ==
    [size |-> 70, raw |-> <<Rec(0, F32_2, F32_1, F32_1, F32_1)>>,
     tail |-> 0, end |-> "truncated"]
\* a complete stream whose length is not a multiple of 20
OddLength ==
    [size |-> 92, raw |-> <<Rec(0, F32_2, F32_1, F32_1, F32_1)>>,
     tail |-> 7, end |-> "eos"]
\* a complete stream of at least 64 bytes that holds no record
NoRecords == [size |-> 64, raw |-> <<>>, tail |-> 0, end |-> "eos"]
\* one float-layout tick whose ms field points an hour and a half past the
\* start of its hour (the int32 field is not validated)
LateTick ==
    [size |-> 84,
     raw |-> <<Rec(HOUR_MS + HOUR_MS \div 2, F32_1, F32_1, F32_1, F32_1)>>,
     tail |-> 0, end |-> "eos"]

\* two int-layout ticks: the price words are small integers, which read as
\* float32 are denormal
IntTicks ==
    [size |-> 90,
     raw |-> <<Rec(0, 5, 3, F32_1, F32_2),
               Rec(HOUR_MS \div 2, 7, 6, F32_2, F32_1)>>,
     tail |-> 0, end |-> "eos"]

Bodies ==
    {EmptyBody, TinyBody, GoodA, GoodB, Garbage, Truncated, OddLength,
     NoRecords, LateTick}

AvailLen(body) == RECORD_LEN * Len(body.raw) + body.tail

\* a probe that reports every failure to read 20 bytes as ValueError
ProbeReadConvertsAll(compressed) ==
    IF AvailLen(compressed) >= RECORD_LEN
    THEN [err |-> "", first |-> compressed.raw[1]]
    ELSE [err |-> "ValueError"]

\* lzma.open(...).read(20) followed by the length check
\* result: [err |-> "", first |-> record] or [err |-> exception name]
ProbeRead(compressed) ==
    IF AvailLen(compressed) >= RECORD_LEN
    THEN [err |-> "", first |-> compressed.raw[1]]
    ELSE IF compressed.end = "corrupt" THEN [err |-> "LZMAError"]
    ELSE [err |-> "ValueError"]

_probe_price_format(compressed) ==
    LET r == ProbeRead(compressed)
    IN  IF r.err # "" THEN [err |-> r.err]
        ELSE IF ~F32Finite(r.first.ask) \/ ~F32Finite(r.first.bid)
             THEN [err |-> "", fmt |-> "int"]
        ELSE IF F32Tiny(r.first.ask) /\ F32Tiny(r.first.bid)
             THEN [err |-> "", fmt |-> "int"]
        ELSE [err |-> "", fmt |-> "float"]

RECURSIVE GCD(_, _)
GCD(a, b) == IF b = 0 THEN a ELSE GCD(b, a % b)

\* float(n) / d as the fraction n/d in lowest terms (d > 0)
Quotient(n, d) ==
    LET g == GCD(n, d)
    IN  [num |-> n \div g, den |-> d \div g]

\* a decoder of the int layout that keeps the whole part of the quotient
DecodeRecordFloors(hour_start, r, price_format, div) ==
    IF price_format = "float"
    THEN [ts |-> hour_start + r.ms, bid |-> F32Value(r.bid),
          ask |-> F32Value(r.ask), bid_vol |-> F32Value(r.bid_vol),
          ask_vol |-> F32Value(r.ask_vol)]
    ELSE [ts |-> hour_start + r.ms, bid |-> Quotient(r.bid \div div, 1),
          ask |-> Quotient(r.ask \div div, 1),
          bid_vol |-> F32Value(r.bid_vol),
          ask_vol |-> F32Value(r.ask_vol)]

\* one decoded Tick; the prices of the int layout are fractions
DecodeRecord(hour_start, r, price_format, div) ==
    IF price_format = "float"
    THEN [ts |-> hour_start + r.ms, bid |-> F32Value(r.bid),
          ask |-> F32Value(r.ask), bid_vol |-> F32Value(r.bid_vol),
          ask_vol |-> F32Value(r.ask_vol)]
    ELSE [ts |-> hour_start + r.ms, bid |-> Quotient(r.bid, div),
          ask |-> Quotient(r.ask, div), bid_vol |-> F32Value(r.bid_vol),
          ask_vol |-> F32Value(r.ask_vol)]

\* result: [err |-> "", ticks |-> sequence] or [err |-> exception name]
_decode_ticks(hour_start, compressed, price_format, price_divisor) ==
    IF compressed.end # "eos" THEN [err |-> "LZMAError"]
    ELSE IF AvailLen(compressed) % RECORD_LEN # 0 THEN [err |-> "ValueError"]
    ELSE IF price_format \notin {"float", "int"} THEN [err |-> "ValueError"]
    ELSE LET div == IF price_divisor = 0 THEN 1 ELSE price_divisor
         IN  [err |-> "",
              ticks |-> [i \in 1..Len(compressed.raw) |->
                           DecodeRecord(hour_start, compressed.raw[i],
                                        price_format, div)]]

\* ------------------------------------------------------------------------
\* Fetcher: _download_bi5 as one sequential call
\* ------------------------------------------------------------------------
Http(status, body) == [kind |-> "http", status |-> status, body |-> body]
\* a transport-level failure (connection error, timeout)
TransportError == [kind |-> "exc", status |-> 0, body |-> EmptyBody]

\* requests' Response.raise_for_status
RaisesForStatus(status) == status >= 400 /\ status < 600

\* the attempt ends in the except branch
AttemptFails(r) == r.kind = "exc" \/ RaisesForStatus(r.status)

\* a response that is taken for no answer at all
NotFoundIsFailure(r) == FALSE

\* line 131: r.status_code == 404
NotFound(r) == r.kind = "http" /\ r.status = 404

Responses ==
    {TransportError, Http(404, EmptyBody)} \cup {Http(200, b) : b \in Bodies}

\* What the upstream may answer to the successive attempts of one call,
\* drawn from the responses R: every answer but the last one sends the call
\* into another attempt.
ScriptsOver(R, retries) ==
    LET failing == {r \in R : ~NotFound(r) /\ AttemptFails(r)}
    IN  IF retries = 0 THEN {<<>>}
        ELSE UNION {{Append(pre, last) :
                       pre \in [1..(n - 1) -> failing],
                       last \in (IF n < retries THEN R \ failing ELSE R)} :
                    n \in 1..retries}

ResponseScripts(retries) == ScriptsOver(Responses, retries)

\* the scripts of a call with retries=3 (download_hour, probe mode and the
\* default of the self-heal re-fetch)
DlScripts == ResponseScripts(DL_RETRIES)

\* a classification that stores and returns every non-empty body
OnSuccessKeepsNoise(body, caching) ==
    IF body.size = 0
    THEN [ret |-> EmptyBody, op |-> IF caching THEN "touch" ELSE "none"]
    ELSE [ret |-> body, op |-> IF caching THEN "replace" ELSE "none"]

\* lines 137-158: the body of an answer that passed raise_for_status
\* result: ret  the returned bytes
\*         op   what is done to cache_path: "none", "touch" (mkdir and
\*              touch(exist_ok=True)) or "replace" (mkdir, write the tmp
\*              file, replace)
OnSuccess(body, caching) ==
    IF body.size = 0
    THEN [ret |-> EmptyBody, op |-> IF caching THEN "touch" ELSE "none"]
    ELSE IF body.size < MIN_PAYLOAD_LEN
    THEN [ret |-> EmptyBody, op |-> IF caching THEN "touch" ELSE "none"]
    ELSE [ret |-> body, op |-> IF caching THEN "replace" ELSE "none"]

\* a loop that sleeps after every failed attempt
SleepsAfterEveryFailure(attempt, retries) == TRUE

\* line 165: if attempt < retries
SleepsAfter(attempt, retries) == attempt < retries

\* a backoff without ceiling
NextDelayUncapped(delay) == delay * RETRY_BACKOFF_FACTOR

\* line 168: delay = min(delay * RETRY_BACKOFF_FACTOR, RETRY_MAX_DELAY)
NextDelay(delay) == Min(delay * RETRY_BACKOFF_FACTOR, RETRY_MAX_DELAY)

\* the for-loop of _download_bi5 from attempt number `attempt` on
\* result: ret    the returned bytes, or None
\*         op     what is done to cache_path: "none", "touch" or "replace"
\*         calls  network requests issued
\*         delays the sleeps taken, in order
RECURSIVE DownloadLoop(_, _, _, _, _, _)
DownloadLoop(attempt, delay, caching, resps, retries, delays) ==
    IF attempt > retries
    THEN [ret |-> None, op |-> "none", calls |-> retries, delays |-> delays]
    ELSE LET r == resps[attempt]
         IN  IF NotFound(r)
             THEN [ret |-> None, op |-> "none", calls |-> attempt,
                   delays |-> delays]
             ELSE IF AttemptFails(r)
             THEN IF SleepsAfter(attempt, retries)
                  THEN DownloadLoop(attempt + 1, NextDelay(delay), caching,
                                    resps, retries, Append(delays, delay))
                  ELSE DownloadLoop(attempt + 1, delay, caching, resps,
                                    retries, delays)
             ELSE LET c == OnSuccess(r.body, caching)
                  IN  [ret |-> c.ret, op |-> c.op, calls |-> attempt,
                       delays |-> delays]

\* cache_path.exists(), with cache_path None when caching is off
CacheHit(file, caching) == caching /\ file # NoFile

\* one whole call with nobody else touching cache_path
\* result: ret, op, calls, delays as above and file, the cache entry
\* afterwards
_download_bi5(file, caching, resps, retries) ==
    IF CacheHit(file, caching)
    THEN [ret |-> file, op |-> "none", file |-> file, calls |-> 0,
          delays |-> <<>>]
    ELSE LET d == DownloadLoop(1, RETRY_BASE_DELAY, caching, resps, retries,
                               <<>>)
         IN  [ret |-> d.ret, op |-> d.op,
              file |-> IF d.op = "touch"
                       THEN (IF file = NoFile THEN EmptyBody ELSE file)
                       ELSE IF d.op = "replace" THEN d.ret
                       ELSE file,
              calls |-> d.calls, delays |-> d.delays]

\* ------------------------------------------------------------------------
\* Aggregator
\* ------------------------------------------------------------------------
PriceSides == {"bid", "ask", "mid"}

\* doubled price and volume of the selected side
Px2(t, side) ==
    IF side = "bid" THEN 2 * t.bid
    ELSE IF side = "ask" THEN 2 * t.ask
    ELSE t.bid + t.ask

Vol2(t, side) ==
    IF side = "bid" THEN 2 * t.bid_vol
    ELSE IF side = "ask" THEN 2 * t.ask_vol
    ELSE t.bid_vol + t.ask_vol

BucketOf(ts, width) == (ts \div width) * width

RECURSIVE SortedSeqOf(_)
SortedSeqOf(S) ==
    IF S = {} THEN <<>>
    ELSE LET m == CHOOSE x \in S : \A y \in S : x <= y
         IN  <<m>> \o SortedSeqOf(S \ {m})

\* the members of s, in order, whose key is k
RECURSIVE Keep(_, _, _)
Keep(s, key, k) ==
    IF s = <<>> THEN <<>>
    ELSE IF key[1] = k THEN <<Head(s)>> \o Keep(Tail(s), Tail(key), k)
    ELSE Keep(Tail(s), Tail(key), k)

RECURSIVE MaxSeq(_)
MaxSeq(s) == IF Len(s) = 1 THEN s[1] ELSE Max(s[1], MaxSeq(Tail(s)))

RECURSIVE MinSeq(_)
MinSeq(s) == IF Len(s) = 1 THEN s[1] ELSE Min(s[1], MinSeq(Tail(s)))

\* ohlc() and sum() of the ticks of one bucket, in index order
BarOf(bucket, ticks, side) ==
    LET px == [i \in 1..Len(ticks) |-> Px2(ticks[i], side)]
        vol == [i \in 1..Len(ticks) |-> Vol2(ticks[i], side)]
    IN  [t |-> bucket, open |-> px[1], high |-> MaxSeq(px),
         low |-> MinSeq(px), close |-> px[Len(px)], volume |-> SumSeq(vol)]

\* bins that start at the earliest tick (resample with origin="start")
OriginAtFirstTick(first) == first

\* resample's default origin="start_day": midnight of the day of the
\* earliest tick
Origin(first) == FloorDay(first)

\* resample(rule): bins of the width counted from the origin, over the index
\* sorted by time (ties keep their order); dropna removes the bins without a
\* tick
Resample(ticks, width, side) ==
    LET tss == [i \in 1..Len(ticks) |-> ticks[i].ts]
        times == SortedSeqOf({tss[i] : i \in 1..Len(ticks)})
        byTime == Flatten([j \in 1..Len(times) |-> Keep(ticks, tss, times[j])])
        origin == Origin(times[1])
        bk == [i \in 1..Len(byTime) |->
                 origin + BucketOf(byTime[i].ts - origin, width)]
        order == SortedSeqOf({bk[i] : i \in 1..Len(byTime)})
    IN  [j \in 1..Len(order) |->
            BarOf(order[j], Keep(byTime, bk, order[j]), side)]

\* result: [err |-> "", bars |-> sequence] or [err |-> "ValueError"]
_ticks_to_candles(ticks, rule, side) ==
    IF ticks = <<>> THEN [err |-> "", bars |-> <<>>]
    ELSE IF side \notin PriceSides THEN [err |-> "ValueError"]
    ELSE [err |-> "", bars |-> Resample(ticks, rule, side)]

\* ------------------------------------------------------------------------
\* Final assembly of export_range
\* ------------------------------------------------------------------------
Monotonic(bars) == \A i \in 1..(Len(bars) - 1) : bars[i].t <= bars[i + 1].t

RemoveAt(s, i) == SubSeq(s, 1, i - 1) \o SubSeq(s, i + 1, Len(s))

\* every arrangement of the bars in ascending bucket order
RECURSIVE Arrangements(_)
Arrangements(bars) ==
    IF bars = <<>> THEN {<<>>}
    ELSE LET m == MinSeq([i \in 1..Len(bars) |-> bars[i].t])
         IN  UNION {{<<bars[i]>> \o rest :
                       rest \in Arrangements(RemoveAt(bars, i))} :
                    i \in {k \in 1..Len(bars) : bars[k].t = m}}

\* DataFrame.sort_index(): an index that is already monotonic is returned as
\* it is; otherwise the default sort is not stable, so bars of equal bucket
\* start may come out in any order
SortIndex(bars) ==
    IF Monotonic(bars) THEN {bars} ELSE Arrangements(bars)

\* frames.loc[start_utc : end_utc_inclusive + 1 day - 1 microsecond]
Clip(bars, start, end_inclusive) ==
    Keep(bars,
         [i \in 1..Len(bars) |->
            bars[i].t >= start /\ bars[i].t < end_inclusive + DAY_MS],
         TRUE)

\* frames[~frames.index.duplicated(keep="last")]
DropDuplicatesKeepLast(bars) ==
    Keep(bars,
         [i \in 1..Len(bars) |->
            \A j \in (i + 1)..Len(bars) : bars[j].t # bars[i].t],
         TRUE)

\* ------------------------------------------------------------------------
\* State of one export_range call
\* ------------------------------------------------------------------------
VARIABLES
    \* arguments
    start_utc, end_utc_inclusive, resample_rule, price_side, price_divisor,
    cache_dir, probe,
    \* what the world outside holds for every hour, where that is settled
    \* before the call (SpecFixed): the cache file at the start, the answers
    \* of upstream to the fetch and to the self-heal re-fetch, and whether
    \* the cache file can be deleted
    upstream,
    \* the content cache of the symbol: hour start -> file content or NoFile
    cache,
    \* locals of export_range
    hours_to_fetch, hours_total, hours_missing_404, hours_empty_200,
    hours_downloaded, hours_decode_failed, hours_resampled_nonempty,
    detected_format, all_frames, hour_data, next_to_process,
    \* the executor: state and result of the future of every hour, and the
    \* futures as_completed has handed to the loop
    futures, results, yielded,
    \* the two progress tasks (completed counts)
    dl_progress, rs_progress,
    \* parallel._cancellation_event
    cancellation_event,
    \* position of the calling thread, the exception it leaves with, and the
    \* rows written to the CSV (None: nothing written)
    pc, exc, out_csv,
    \* history: the hours consumed by the drain loop with what became of
    \* them, the ticks decoded so far, and the hours in the order in which
    \* as_completed handed them over
    drained, all_ticks, arrival

args == <<start_utc, end_utc_inclusive, resample_rule, price_side,
          price_divisor, cache_dir, probe, upstream>>
counters == <<hours_missing_404, hours_empty_200, hours_downloaded,
              hours_decode_failed, hours_resampled_nonempty>>
drainState == <<detected_format, all_frames, next_to_process, rs_progress,
                drained, all_ticks>>
exportVars == <<args, cache, hours_to_fetch, hours_total, counters,
                drainState, hour_data, futures, results, yielded,
                dl_progress, cancellation_event, pc, exc, out_csv, arrival>>

\* State of the callers of _download_bi5 on one cache path (SpecFetch)
VARIABLES
    \* arguments: cache_path given or None, retries; the payload upstream
    \* serves for the url
    f_caching, f_retries, f_payload,
    \* the files at cache_path and at cache_path + ".tmp"
    fs_cache, fs_tmp,
    \* per caller: position, the file its open handle refers to, requests
    \* issued, sleeps taken, returned bytes
    f_pc, f_handle, f_attempt, f_delays, f_ret,
    \* history per caller: cache_path was given and a file existed there
    \* when the call was made, the file content the call read, the callers
    \* that had returned when it called
    f_hit, f_read, f_after

fetchVars == <<f_caching, f_retries, f_payload, fs_cache, fs_tmp, f_pc,
               f_handle, f_attempt, f_delays, f_ret, f_hit, f_read, f_after>>

\* State of one client that calls _download_bi5 for one url and cache path
\* twice in turn (SpecCall)
VARIABLES
    \* arguments: cache_path given or None, retries
    c_caching, c_retries,
    \* the file at cache_path and whether its parent directory exists
    c_file, c_dir,
    \* calls made so far ("none", "once", "twice"), the failed attempts of
    \* the call before the latest, and what the latest call did
    c_n, c_prev, c_last

callVars == <<c_caching, c_retries, c_file, c_dir, c_n, c_prev, c_last>>

\* State of one application of a helper function to arguments of its own
\* (SpecPure)
VARIABLES
    \* the function applied and its arguments, by parameter name
    p_fn, p_args,
    \* whether the function was applied yet, and its result
    p_called, p_out

pureVars == <<p_fn, p_args, p_called, p_out>>

\* State of one run_parallel_exports call (SpecRun); the names results and
\* futures belong to export_range above, so the locals of the run carry the
\* prefix run_
VARIABLES
    \* argument
    max_workers,
    \* futures of the outer executor: task -> state and what the future holds
    run_futures,
    \* the list results, and the futures as_completed has handed over
    run_results, run_yielded,
    \* position of the calling thread and the exception it leaves with
    run_pc, run_exc,
    \* history: how the export of every task ended
    run_ended

runVars == <<max_workers, run_futures, run_results, run_yielded, run_pc,
             run_exc, run_ended>>

\* State of the fetch pipeline of one export_range call over a range with
\* more hours than pool threads (SpecPool): the payloads are reduced to
\* their kind, and the self-heal re-fetch is a step of its own.  The names
\* of the locals belong to the export above, so these carry the prefix pl_
VARIABLES
    \* the executor: state of the future of every hour (by position in
    \* hours_to_fetch), the kind of bytes it holds, and the futures
    \* as_completed has handed to the loop
    pl_futures, pl_results, pl_yielded,
    \* hour_data (the positions it holds) and next_to_process
    pl_hour_data, pl_next_to_process,
    \* position of the calling thread
    pl_pc

poolVars == <<pl_futures, pl_results, pl_yielded, pl_hour_data,
              pl_next_to_process, pl_pc>>

\* everything of an export but parallel._cancellation_event
exportLocals == <<args, cache, hours_to_fetch, hours_total, counters,
                  drainState, hour_data, futures, results, yielded,
                  dl_progress, pc, exc, out_csv, arrival>>

vars == <<exportVars, fetchVars, callVars, pureVars, runVars, poolVars, poolVars>>

HALF_HOUR_MS == HOUR_MS \div 2

StartChoices == {DAY_MS - k * HALF_HOUR_MS : k \in 1..MaxHalfHoursBack}
EndChoices == {DAY_MS - HALF_HOUR_MS \div 2}
RuleChoices == {HALF_HOUR_MS, 2 * HOUR_MS}
\* what the cache may hold for an hour before the call
SeedChoices == {NoFile, Garbage}

HourSet == {hours_to_fetch[i] : i \in 1..Len(hours_to_fetch)}
\* the hours a range of the model can contain
CachePaths == {DAY_MS - k * HOUR_MS : k \in 1..((MaxHalfHoursBack + 1) \div 2)}

\* nothing is settled before the call: every fetch may get any answer
FreeUpstream ==
    [fixed |-> FALSE, seed |-> NoFile, fetch |-> <<>>, heal |-> <<>>,
     unlink_ok |-> TRUE]

NoUpstream == [h \in CachePaths |-> FreeUpstream]

\* the locals of export_range and the executor before the first statement
InitLocals ==
    /\ hours_to_fetch = <<>>
    /\ hours_total = 0
    /\ hours_missing_404 = 0
    /\ hours_empty_200 = 0
    /\ hours_downloaded = 0
    /\ hours_decode_failed = 0
    /\ hours_resampled_nonempty = 0
    /\ detected_format = Unset
    /\ all_frames = <<>>
    /\ hour_data = {}
    /\ next_to_process = 0
    /\ futures = [h \in CachePaths |-> "none"]
    /\ results = [h \in CachePaths |-> None]
    /\ yielded = {}
    /\ dl_progress = 0
    /\ rs_progress = 0
    /\ cancellation_event = FALSE
    /\ pc = "start"
    /\ exc = Unset
    /\ out_csv = NoOutput
    /\ drained = <<>>
    /\ all_ticks = <<>>
    /\ arrival = <<>>

InitExport ==
    /\ start_utc \in StartChoices
    /\ end_utc_inclusive \in EndChoices
    /\ resample_rule \in RuleChoices
    /\ price_side \in PriceSides
    /\ price_divisor = 1
    /\ cache_dir \in BOOLEAN
    /\ probe \in BOOLEAN
    /\ upstream = NoUpstream
    /\ cache \in [CachePaths -> SeedChoices]
    /\ \A h \in CachePaths :
          cache[h] # NoFile =>
             /\ cache_dir
             /\ h >= start_utc
             /\ h < EndExclusive(end_utc_inclusive)
    /\ InitLocals

\* what upstream may answer to the attempts of the fetch of hour h, of its
\* self-heal re-fetch, and whether unlink succeeds
FetchScripts(h) ==
    IF upstream[h].fixed THEN {upstream[h].fetch} ELSE DlScripts

HealScripts(h) ==
    IF upstream[h].fixed THEN {upstream[h].heal} ELSE DlScripts

UnlinkOutcomes(h) ==
    IF upstream[h].fixed THEN {upstream[h].unlink_ok} ELSE BOOLEAN

\* ------------------------------------------------------------------------
\* export_range
\* ------------------------------------------------------------------------
Running(h) == futures[h] = "running"

\* lines 318-347 and 449-451: enumerate the hours, create the progress
\* tasks, then either enter probe mode or submit one future per hour
Begin ==
    /\ pc = "start"
    /\ hours_to_fetch' = _iter_hours(start_utc, EndExclusive(end_utc_inclusive))
    /\ hours_total' = Len(hours_to_fetch')
    /\ IF probe
       THEN /\ pc' = "probe"
            /\ UNCHANGED futures
       ELSE /\ pc' = "wait"
            /\ futures' = [h \in CachePaths |->
                             IF \E i \in 1..Len(hours_to_fetch') :
                                   hours_to_fetch'[i] = h
                             THEN "pending" ELSE "none"]
    /\ UNCHANGED <<fetchVars, callVars, pureVars, runVars, poolVars, args, cache, counters, drainState, hour_data,
                   results,
                   yielded, dl_progress, cancellation_event, exc, out_csv,
                   arrival>>

\* lines 347-402: probe mode downloads the first hour, probes it, prints
\* and returns None
ProbeMode ==
    /\ pc = "probe"
    /\ IF hours_to_fetch = <<>>
       THEN /\ pc' = "raised"
            /\ exc' = "IndexError"
            /\ UNCHANGED <<cache, detected_format>>
       ELSE \E resps \in FetchScripts(hours_to_fetch[1]) :
              LET first_hour == hours_to_fetch[1]
                  d == _download_bi5(cache[first_hour], cache_dir, resps,
                                     DL_RETRIES)
                  p == _probe_price_format(d.ret)
              IN  /\ cache' = [cache EXCEPT ![first_hour] = d.file]
                  /\ IF d.ret = None \/ d.ret.size = 0
                     THEN /\ pc' = "returned"
                          /\ UNCHANGED <<exc, detected_format>>
                     ELSE IF p.err # ""
                     THEN /\ pc' = "raised"
                          /\ exc' = p.err
                          /\ UNCHANGED detected_format
                     ELSE /\ pc' = "returned"
                          /\ detected_format' = p.fmt
                          /\ UNCHANGED exc
    /\ UNCHANGED <<fetchVars, callVars, pureVars, runVars, poolVars, args, hours_to_fetch, hours_total, counters,
                   all_frames,
                   next_to_process, rs_progress, drained, all_ticks,
                   hour_data, futures, results, yielded, dl_progress,
                   cancellation_event, out_csv, arrival>>

\* a pool thread takes the oldest queued download_hour task
StartFetch(h) ==
    /\ futures[h] = "pending"
    /\ \A g \in CachePaths : g < h => futures[g] # "pending"
    /\ Cardinality({g \in CachePaths : Running(g)})
          < DOWNLOAD_THREADS_PER_INSTRUMENT
    /\ futures' = [futures EXCEPT ![h] = "running"]
    /\ UNCHANGED <<fetchVars, callVars, pureVars, runVars, poolVars, args, cache, hours_to_fetch, hours_total,
                   counters,
                   drainState, hour_data, results, yielded, dl_progress,
                   cancellation_event, pc, exc, out_csv, arrival>>

\* a download_hour that stores its result in hour_data itself
StoredByWorker(data, h, ret) == data \cup {<<h, ret>>}

\* line 433: download_hour returns the bytes and leaves hour_data to the
\* calling thread
ReturnedByWorker(data, h, ret) == data

\* lines 409-439, download_hour: fetch, advance the dl task, return
CompleteFetch(h) ==
    /\ futures[h] = "running"
    /\ \E resps \in FetchScripts(h) :
          LET d == _download_bi5(cache[h], cache_dir, resps, DL_RETRIES)
          IN  /\ cache' = [cache EXCEPT ![h] = d.file]
              /\ results' = [results EXCEPT ![h] = d.ret]
              /\ hour_data' = ReturnedByWorker(hour_data, h, d.ret)
    /\ dl_progress' = dl_progress + 1
    /\ futures' = [futures EXCEPT ![h] = "finished"]
    /\ UNCHANGED <<fetchVars, callVars, pureVars, runVars, poolVars, args, hours_to_fetch, hours_total, counters,
                   drainState,
                   yielded, cancellation_event, pc, exc, out_csv,
                   arrival>>

\* a loop that stores the result before it looks at the event
StoredThenChecked(data, h, ret, event) == data \cup {<<h, ret>>}

\* lines 455-459: the result is stored only when the event is not set
CheckedThenStored(data, h, ret, event) ==
    IF event THEN data ELSE data \cup {<<h, ret>>}

\* lines 453-459: as_completed hands over a finished future; the
\* cancellation event is checked, then the result is stored
Yield(h) ==
    /\ pc = "wait"
    /\ futures[h] = "finished"
    /\ h \notin yielded
    /\ yielded' = yielded \cup {h}
    /\ hour_data' = CheckedThenStored(hour_data, h, results[h],
                                      cancellation_event)
    /\ IF cancellation_event
       THEN /\ pc' = "unwinding"
            /\ exc' = "KeyboardInterrupt"
            /\ UNCHANGED arrival
       ELSE /\ pc' = "drain"
            /\ arrival' = Append(arrival, h)
            /\ UNCHANGED exc
    /\ UNCHANGED <<fetchVars, callVars, pureVars, runVars, poolVars, args, cache, hours_to_fetch, hours_total,
                   counters,
                   drainState, futures, results, dl_progress,
                   cancellation_event, out_csv>>

\* lines 526-531: aggregate the ticks of the hour and keep a non-empty frame
Resampled(r, ticks) ==
    LET c == _ticks_to_candles(ticks, resample_rule, price_side)
    IN  IF c.err # ""
        THEN [r EXCEPT !.raise = c.err, !.outcome = "config_error"]
        ELSE [r EXCEPT !.frame = c.bars, !.ticks = ticks, !.rs = 1,
                       !.outcome = IF c.bars # <<>> THEN "bars"
                                   ELSE "zero_bars"]

\* line 501: cache_path is not None and cache_path.exists()
HasCacheFile(file) == cache_dir /\ file # NoFile

\* lines 502-506: cache_path.unlink(); an OSError is logged and the file
\* stays
Unlink(file, ok) == IF ok THEN NoFile ELSE file

\* lines 500-519: drop the suspect cache file, fetch the hour again, decode
SelfHeal(r, current_hour, file, resps, unlink_ok) ==
    LET unlinked == IF HasCacheFile(file) THEN Unlink(file, unlink_ok)
                    ELSE file
        d == _download_bi5(unlinked, cache_dir, resps, DEFAULT_RETRIES)
        r1 == [r EXCEPT !.file = d.file, !.healed = TRUE,
                        !.heal_hit = CacheHit(unlinked, cache_dir)]
        dec2 == _decode_ticks(current_hour, d.ret, r.fmt, price_divisor)
    IN  IF d.ret = None
        THEN [r1 EXCEPT !.rs = 1, !.outcome = "heal_missing"]
        ELSE IF dec2.err # ""
        THEN [r1 EXCEPT !.decode_failed = 1, !.rs = 1,
                        !.outcome = "heal_failed"]
        ELSE Resampled(r1, dec2.ticks)

\* a handler that lets the decode error through
DecodeFailedRaises(fetched) ==
    [fetched EXCEPT !.raise = "ValueError", !.outcome = "decode_error"]

\* lines 520-524: any other decode error skips the hour and counts it
DecodeFailed(fetched) ==
    [fetched EXCEPT !.decode_failed = 1, !.rs = 1, !.outcome = "decode_error"]

\* a loop that probes the payload of every hour
ShouldProbeAlways(fmt0) == TRUE

\* line 493: detected_format is None
ShouldProbe(fmt0) == fmt0 = Unset

\* lines 481-531: what the drain loop does with the bytes of one hour.
\* raise is the exception that leaves the loop ("" when there is none),
\* rs the advance of the resample progress task, the counter fields are
\* the increments of the hour counters.
ProcessHour(current_hour, comp, fmt0, file, resps, unlink_ok) ==
    LET base == [raise |-> "", fmt |-> fmt0, file |-> file, missing |-> 0,
                 empty |-> 0, downloaded |-> 0, decode_failed |-> 0,
                 frame |-> <<>>, ticks |-> <<>>, rs |-> 0, outcome |-> "",
                 healed |-> FALSE, heal_hit |-> FALSE, probed |-> FALSE]
    IN  IF comp = None
        THEN [base EXCEPT !.missing = 1, !.rs = 1, !.outcome = "missing"]
        ELSE IF comp.size = 0
        THEN [base EXCEPT !.empty = 1, !.rs = 1, !.outcome = "empty"]
        ELSE LET p == IF ShouldProbe(fmt0) THEN _probe_price_format(comp)
                      ELSE [err |-> "", fmt |-> fmt0]
             IN  IF p.err # ""
                 THEN [base EXCEPT !.downloaded = 1, !.raise = p.err,
                                   !.probed = TRUE,
                                   !.outcome = "probe_error"]
                 ELSE LET fetched == [base EXCEPT !.downloaded = 1,
                                                  !.probed = ShouldProbe(fmt0),
                                                  !.fmt = p.fmt]
                          dec == _decode_ticks(current_hour, comp, p.fmt,
                                               price_divisor)
                      IN  IF dec.err = "LZMAError"
                          THEN SelfHeal(fetched, current_hour, file, resps,
                                        unlink_ok)
                          ELSE IF dec.err # ""
                          THEN DecodeFailed(fetched)
                          ELSE Resampled(fetched, dec.ticks)

\* a drain loop that takes whichever hour has arrived
CurrentHourAsArrived ==
    IF hour_data # {} THEN (CHOOSE e \in hour_data : TRUE)[1]
    ELSE hours_to_fetch[next_to_process + 1]

\* line 462: current_hour = hours_to_fetch[next_to_process]
CurrentHour == hours_to_fetch[next_to_process + 1]

\* lines 461-465: the hour the drain loop is waiting for is in hour_data
NextAvailable ==
    /\ next_to_process < Len(hours_to_fetch)
    /\ \E e \in hour_data : e[1] = CurrentHour

\* the self-heal re-fetch is the only network use of the drain loop
NeedsRefetch(current_hour, comp, fmt0) ==
    /\ comp # None
    /\ comp.size # 0
    /\ LET p == IF ShouldProbe(fmt0) THEN _probe_price_format(comp)
                ELSE [err |-> "", fmt |-> fmt0]
       IN  /\ p.err = ""
           /\ _decode_ticks(current_hour, comp, p.fmt, price_divisor).err
                 = "LZMAError"

\* a loop that reads the entry and leaves it in hour_data
PeekHour(data, e) == data

\* line 467: hour_data.pop(current_hour)
PopHour(data, e) == data \ {e}

\* lines 461-534: one iteration of the drain loop
DrainHour ==
    /\ pc = "drain"
    /\ NextAvailable
    /\ LET current_hour == CurrentHour
           e == CHOOSE x \in hour_data : x[1] = current_hour
           comp == e[2]
           heals == NeedsRefetch(current_hour, comp, detected_format)
           cached == HasCacheFile(cache[current_hour])
       IN  \E unlink_ok \in (IF heals /\ cached
                              THEN UnlinkOutcomes(current_hour)
                              ELSE {TRUE}) :
           \E resps \in (IF heals /\ (unlink_ok \/ ~cached)
                         THEN HealScripts(current_hour) ELSE {<<>>}) :
             LET r == ProcessHour(current_hour, comp, detected_format,
                                  cache[current_hour], resps, unlink_ok)
             IN  /\ hour_data' = PopHour(hour_data, e)
                 /\ next_to_process' = next_to_process + 1
                 /\ cache' = [cache EXCEPT ![current_hour] = r.file]
                 /\ hours_missing_404' = hours_missing_404 + r.missing
                 /\ hours_empty_200' = hours_empty_200 + r.empty
                 /\ hours_downloaded' = hours_downloaded + r.downloaded
                 /\ hours_decode_failed' = hours_decode_failed + r.decode_failed
                 /\ hours_resampled_nonempty' =
                       hours_resampled_nonempty
                          + (IF r.frame # <<>> THEN 1 ELSE 0)
                 /\ detected_format' = r.fmt
                 /\ all_frames' = IF r.frame # <<>>
                                  THEN Append(all_frames, r.frame)
                                  ELSE all_frames
                 /\ rs_progress' = rs_progress + r.rs
                 /\ drained' = Append(drained,
                                      [hour |-> current_hour,
                                       outcome |-> r.outcome,
                                       healed |-> r.healed,
                                       heal_hit |-> r.heal_hit,
                                       probed |-> r.probed,
                                       fmt |-> r.fmt,
                                       file_before |-> cache[current_hour],
                                       file_after |-> r.file])
                 /\ all_ticks' = all_ticks \o r.ticks
                 /\ IF r.raise # ""
                    THEN pc' = "unwinding" /\ exc' = r.raise
                    ELSE pc' = "drain" /\ UNCHANGED exc
    /\ UNCHANGED <<fetchVars, callVars, pureVars, runVars, poolVars, args, hours_to_fetch, hours_total, futures,
                   results,
                   yielded, dl_progress, cancellation_event, out_csv, arrival>>

\* lines 461-465: the loop stops at the first hour that is not there yet
DrainBreak ==
    /\ pc = "drain"
    /\ ~NextAvailable
    /\ pc' = "wait"
    /\ UNCHANGED <<fetchVars, callVars, pureVars, runVars, poolVars, args, cache, hours_to_fetch, hours_total,
                   counters,
                   drainState, hour_data, futures, results, yielded,
                   dl_progress, cancellation_event, exc, out_csv, arrival>>

\* leaving the with-block on an exception: ThreadPoolExecutor.__exit__ is
\* shutdown(wait=True), so the exception leaves export_range once every
\* submitted future has run
ExecutorExit ==
    /\ pc = "unwinding"
    /\ \A h \in CachePaths : futures[h] \in {"none", "finished"}
    /\ pc' = "raised"
    /\ UNCHANGED <<fetchVars, callVars, pureVars, runVars, poolVars, args, cache, hours_to_fetch, hours_total,
                   counters,
                   drainState, hour_data, futures, results, yielded,
                   dl_progress, cancellation_event, exc, out_csv, arrival>>

\* lines 540-562: as_completed is exhausted; no frame is the no-data error,
\* otherwise concat, sort, clip, drop duplicates and write the CSV
Finish ==
    /\ pc = "wait"
    /\ yielded = HourSet
    /\ IF all_frames = <<>>
       THEN /\ pc' = "raised"
            /\ exc' = "RuntimeError"
            /\ UNCHANGED out_csv
       ELSE /\ \E frames \in SortIndex(Flatten(all_frames)) :
                 out_csv' =
                    [written |-> TRUE,
                     rows |-> DropDuplicatesKeepLast(
                                 Clip(frames, start_utc, end_utc_inclusive))]
            /\ pc' = "returned"
            /\ UNCHANGED exc
    /\ UNCHANGED <<fetchVars, callVars, pureVars, runVars, poolVars, args, cache, hours_to_fetch, hours_total,
                   counters,
                   drainState, hour_data, futures, results, yielded,
                   dl_progress, cancellation_event, arrival>>

\* parallel.py lines 107-108: run_parallel_exports sets the event when it is
\* interrupted
Interrupt ==
    /\ pc \in {"wait", "drain"}
    /\ ~cancellation_event
    /\ cancellation_event' = TRUE
    /\ UNCHANGED <<fetchVars, callVars, pureVars, runVars, poolVars, args, cache, hours_to_fetch, hours_total,
                   counters,
                   drainState, hour_data, futures, results, yielded,
                   dl_progress, pc, exc, out_csv, arrival>>

NextExport ==
    \/ Begin
    \/ ProbeMode
    \/ \E h \in CachePaths : StartFetch(h)
    \/ \E h \in CachePaths : CompleteFetch(h)
    \/ \E h \in CachePaths : Yield(h)
    \/ DrainHour
    \/ DrainBreak
    \/ ExecutorExit
    \/ Finish

\* ------------------------------------------------------------------------
\* _download_bi5 step by step: several callers of the same url and cache
\* path (the same symbol exported by two tasks, or a second run), each
\* making one call.  A file is the set of halves of the payload it holds:
\* {} is a zero-length file, {1, 2} the complete payload.
\* ------------------------------------------------------------------------

Fetchers == 1..NumFetchers
Payloads == {GoodB}
FullFile == {1, 2}

\* the bytes read_bytes returns for a file
FileBytes(content) ==
    IF content = {} THEN EmptyBody
    ELSE IF content = FullFile THEN f_payload
    ELSE [size |-> IF content = {1} THEN f_payload.size \div 2
                   ELSE f_payload.size,
          raw |-> <<>>, tail |-> 0,
          end |-> IF content = {1} THEN "truncated" ELSE "corrupt"]

FetchResponses ==
    {TransportError, Http(404, EmptyBody), Http(500, EmptyBody),
     Http(200, EmptyBody), Http(200, TinyBody), Http(200, f_payload)}

InitFetch ==
    /\ f_caching \in BOOLEAN
    /\ f_retries \in 1..MaxRetries
    /\ f_payload \in Payloads
    /\ fs_cache \in {Absent, {}, FullFile}
    /\ ~f_caching => fs_cache = Absent
    /\ fs_tmp = Absent
    /\ f_pc = [p \in Fetchers |-> "idle"]
    /\ f_handle = [p \in Fetchers |-> "none"]
    /\ f_attempt = [p \in Fetchers |-> 0]
    /\ f_delays = [p \in Fetchers |-> <<>>]
    /\ f_ret = [p \in Fetchers |-> None]
    /\ f_hit = [p \in Fetchers |-> FALSE]
    /\ f_read = [p \in Fetchers |-> Absent]
    /\ f_after = [p \in Fetchers |-> {}]

Returned == {p \in Fetchers : f_pc[p] = "done"}

\* the sleep before attempt number k + 1
RECURSIVE DelayAfter(_)
DelayAfter(k) ==
    IF k = 1 THEN RETRY_BASE_DELAY
    ELSE Min(DelayAfter(k - 1) * RETRY_BACKOFF_FACTOR, RETRY_MAX_DELAY)

\* lines 160-171: the except branch after failed attempt number `attempt`;
\* the last failure falls out of the loop and returns None
AfterFailure(p, attempt) ==
    IF attempt < f_retries
    THEN /\ f_pc' = [f_pc EXCEPT ![p] = "retry"]
         /\ f_delays' = [f_delays EXCEPT
                           ![p] = Append(@, DelayAfter(attempt))]
         /\ UNCHANGED f_ret
    ELSE /\ f_pc' = [f_pc EXCEPT ![p] = "done"]
         /\ f_ret' = [f_ret EXCEPT ![p] = None]
         /\ UNCHANGED f_delays

\* caller p enters _download_bi5; the callers are interchangeable and are
\* numbered in the order in which they enter
Enters(p) ==
    /\ f_pc[p] = "idle"
    /\ \A q \in Fetchers : q < p => f_pc[q] # "idle"

\* a lookup that takes a zero-byte entry for no entry
FetchCacheHitNonEmpty == f_caching /\ fs_cache \notin {Absent, {}}

\* line 122: cache_path is not None and cache_path.exists()
FetchCacheHit == f_caching /\ fs_cache # Absent

\* lines 121-123: the call finds the cache entry and returns its bytes
CacheHitCall(p) ==
    /\ Enters(p)
    /\ FetchCacheHit
    /\ f_hit' = [f_hit EXCEPT ![p] = f_caching /\ fs_cache # Absent]
    /\ f_read' = [f_read EXCEPT ![p] = fs_cache]
    /\ f_ret' = [f_ret EXCEPT ![p] = FileBytes(fs_cache)]
    /\ f_after' = [f_after EXCEPT ![p] = Returned]
    /\ f_pc' = [f_pc EXCEPT ![p] = "done"]
    /\ UNCHANGED <<exportVars, callVars, pureVars, runVars, poolVars, f_caching, f_retries, f_payload, fs_cache,
                   fs_tmp,
                   f_handle, f_attempt, f_delays>>

\* lines 128-150: one request and the classification of its answer; an
\* empty or tiny body is cached with touch(exist_ok=True)
Request(p) ==
    /\ \/ Enters(p) /\ ~FetchCacheHit
       \/ f_pc[p] = "retry"
    /\ f_after' = [f_after EXCEPT
                     ![p] = IF f_pc[p] = "idle" THEN Returned ELSE @]
    /\ f_hit' = [f_hit EXCEPT
                   ![p] = IF f_pc[p] = "idle"
                          THEN f_caching /\ fs_cache # Absent ELSE @]
    /\ f_attempt' = [f_attempt EXCEPT ![p] = @ + 1]
    /\ \E r \in FetchResponses :
          IF r.kind = "http" /\ r.status = 404
          THEN /\ f_pc' = [f_pc EXCEPT ![p] = "done"]
               /\ f_ret' = [f_ret EXCEPT ![p] = None]
               /\ UNCHANGED <<fs_cache, f_delays>>
          ELSE IF AttemptFails(r)
          THEN /\ AfterFailure(p, f_attempt[p] + 1)
               /\ UNCHANGED fs_cache
          ELSE IF r.body.size < MIN_PAYLOAD_LEN
          THEN /\ f_pc' = [f_pc EXCEPT ![p] = "done"]
               /\ f_ret' = [f_ret EXCEPT ![p] = EmptyBody]
               /\ fs_cache' = IF f_caching /\ fs_cache = Absent
                              THEN {} ELSE fs_cache
               /\ UNCHANGED f_delays
          ELSE /\ f_pc' = [f_pc EXCEPT
                             ![p] = IF f_caching THEN "write" ELSE "done"]
               /\ f_ret' = [f_ret EXCEPT ![p] = r.body]
               /\ UNCHANGED <<fs_cache, f_delays>>
    /\ UNCHANGED <<exportVars, callVars, pureVars, runVars, poolVars, f_caching, f_retries, f_payload, fs_tmp,
                   f_handle,
                   f_read>>

\* lines 154-155: tmp.write_bytes opens the file at the tmp path for
\* writing, which creates or truncates it, and writes; the first half
\* of the bytes is in the file
WriteFirst(p) ==
    /\ f_pc[p] = "write"
    /\ fs_tmp' = {1}
    /\ f_handle' = [f_handle EXCEPT ![p] = "tmp"]
    /\ f_pc' = [f_pc EXCEPT ![p] = "write2"]
    /\ UNCHANGED <<exportVars, callVars, pureVars, runVars, poolVars, f_caching, f_retries, f_payload, fs_cache,
                   f_attempt,
                   f_delays, f_ret, f_hit, f_read, f_after>>

\* line 155: the rest of the bytes goes to the file the handle refers to,
\* wherever that file is linked by now
WriteRest(p) ==
    /\ f_pc[p] = "write2"
    /\ fs_tmp' = IF f_handle[p] = "tmp" THEN fs_tmp \cup {2} ELSE fs_tmp
    /\ fs_cache' = IF f_handle[p] = "cache" THEN fs_cache \cup {2}
                   ELSE fs_cache
    /\ f_handle' = [f_handle EXCEPT ![p] = "none"]
    /\ f_pc' = [f_pc EXCEPT ![p] = "replace"]
    /\ UNCHANGED <<exportVars, callVars, pureVars, runVars, poolVars, f_caching, f_retries, f_payload, f_attempt,
                   f_delays,
                   f_ret, f_hit, f_read, f_after>>

\* a write that never moves the tmp file to cache_path
ReplaceSkipped(p) ==
    /\ f_pc[p] = "replace"
    /\ f_pc' = [f_pc EXCEPT ![p] = "done"]
    /\ UNCHANGED <<exportVars, callVars, pureVars, runVars, poolVars, f_caching, f_retries, f_payload, fs_cache,
                   fs_tmp,
                   f_handle, f_attempt, f_delays, f_ret, f_hit, f_read,
                   f_after>>

\* lines 156-158: tmp.replace(cache_path) and return; without a file at the
\* tmp path it raises FileNotFoundError into the except branch
Replace(p) ==
    /\ f_pc[p] = "replace"
    /\ IF fs_tmp = Absent
       THEN /\ AfterFailure(p, f_attempt[p])
            /\ UNCHANGED <<fs_cache, fs_tmp, f_handle>>
       ELSE /\ fs_cache' = fs_tmp
            /\ fs_tmp' = Absent
            /\ f_handle' = [q \in Fetchers |->
                              IF f_handle[q] = "tmp" THEN "cache"
                              ELSE IF f_handle[q] = "cache" THEN "orphan"
                              ELSE f_handle[q]]
            /\ f_pc' = [f_pc EXCEPT ![p] = "done"]
            /\ UNCHANGED <<f_ret, f_delays>>
    /\ UNCHANGED <<exportVars, callVars, pureVars, runVars, poolVars, f_caching, f_retries, f_payload, f_attempt,
                   f_hit,
                   f_read, f_after>>

NextFetch ==
    \/ \E p \in Fetchers : CacheHitCall(p)
    \/ \E p \in Fetchers : Request(p)
    \/ \E p \in Fetchers : WriteFirst(p)
    \/ \E p \in Fetchers : WriteRest(p)
    \/ \E p \in Fetchers : Replace(p)

\* ------------------------------------------------------------------------
\* _download_bi5 called twice in turn by one client, each call as a whole
\* ------------------------------------------------------------------------
\* what upstream may answer to that client: a transport failure, a status
\* that raise_for_status rejects, 404, a status below 400 outside 2xx (a
\* redirect without Location), and 200 with an empty, a tiny and a
\* substantial body
CallResponses ==
    {TransportError, Http(500, GoodA), Http(404, EmptyBody),
     Http(301, GoodA), Http(200, EmptyBody), Http(200, TinyBody),
     Http(200, GoodA)}

\* the scripts of a call, by its retries argument
CallScripts ==
    [retries \in 0..MaxAttempts |-> ScriptsOver(CallResponses, retries)]

NoResponse == [kind |-> "none", status |-> 0, body |-> EmptyBody]

\* c_last before the first call
NoCall ==
    [hit |-> FALSE, ret |-> None, op |-> "none", calls |-> 0, failed |-> 0,
     delays |-> <<>>, last |-> NoResponse, before |-> NoFile,
     after |-> NoFile, dir_before |-> FALSE, dir_after |-> FALSE]

InitCall ==
    /\ c_caching \in BOOLEAN
    /\ c_retries \in 0..MaxAttempts
    /\ c_file \in {NoFile, EmptyBody, GoodA}
    /\ c_dir \in BOOLEAN
    /\ ~c_caching => c_file = NoFile /\ ~c_dir
    /\ c_file # NoFile => c_dir
    /\ c_n = "none"
    /\ c_prev = 0
    /\ c_last = NoCall

\* lines 105-171: one call; c_last records whether it found the cache
\* entry, what it returned, the requests it issued, how many of them
\* failed, the sleeps it took, the answer it ended on, and the cache entry
\* and directory before and after
Call ==
    /\ c_n # "twice"
    /\ \E resps \in (IF CacheHit(c_file, c_caching) THEN {<<>>}
                      ELSE CallScripts[c_retries]) :
          LET d == _download_bi5(c_file, c_caching, resps, c_retries)
              dir == c_dir \/ d.op # "none"
          IN  /\ c_file' = d.file
              /\ c_dir' = dir
              /\ c_last' =
                    [hit |-> CacheHit(c_file, c_caching), ret |-> d.ret,
                     op |-> d.op, calls |-> d.calls,
                     failed |-> Cardinality(
                        {i \in 1..d.calls :
                            ~NotFound(resps[i]) /\ AttemptFails(resps[i])}),
                     delays |-> d.delays,
                     last |-> IF d.calls = 0 THEN NoResponse
                              ELSE resps[d.calls],
                     before |-> c_file, after |-> d.file,
                     dir_before |-> c_dir, dir_after |-> dir]
    /\ c_prev' = c_last.failed
    /\ c_n' = IF c_n = "none" THEN "once" ELSE "twice"
    /\ UNCHANGED <<exportVars, fetchVars, pureVars, runVars, poolVars, c_caching, c_retries>>

NextCall == Call

\* ------------------------------------------------------------------------
\* The helper functions applied to arguments of their own (SpecPure)
\* ------------------------------------------------------------------------
QUARTER_HOUR_MS == HOUR_MS \div 4
MINUTE_MS == HOUR_MS \div 60

\* start and end_exclusive of _iter_hours: on and off the hour, in either
\* order
Instants == {k * QUARTER_HOUR_MS : k \in 0..MaxQuarterHours}

\* price_format arguments: the two layouts and one that is neither
PriceFormats == {"float", "int", "auto"}

\* price_side arguments: the three sides and one that is none of them
SideArgs == PriceSides \cup {"last"}

\* three float-layout ticks off the half hours, the first 40 minutes and the
\* others 70 and 80 minutes after the start of the hour
ThreeTicks ==
    [size |-> 100,
     raw |-> <<Rec(40 * MINUTE_MS, F32_2, F32_1, F32_1, F32_2),
               Rec(70 * MINUTE_MS, F32_4, F32_3, F32_2, F32_1),
               Rec(80 * MINUTE_MS, F32_3, F32_2, F32_4, F32_3)>>,
     tail |-> 0, end |-> "eos"]

\* two float-layout ticks of one half hour whose volume words carry the
\* sign bit
NegativeVolume ==
    [size |-> 95,
     raw |-> <<Rec(0, F32_2, F32_1, F32Neg(F32_1), F32Neg(F32_2)),
               Rec(MINUTE_MS, F32_3, F32_2, F32_1, F32Neg(F32_3))>>,
     tail |-> 0, end |-> "eos"]

\* tick lists: none, the ticks of the float-layout payloads, and three
\* ticks that straddle midnight
TickLists ==
    {<<>>}
    \cup {_decode_ticks(0, b, "float", 1).ticks :
             b \in {GoodA, GoodB, LateTick, NegativeVolume}}
    \cup {_decode_ticks(DAY_MS - HOUR_MS, ThreeTicks, "float", 1).ticks}

\* resample rules: those of the exports and one whose width does not divide
\* the day
PureRules == RuleChoices \cup {7 * HOUR_MS}

\* ------------------------------------------------------------------------
\* Request URL and cache path of an hour.  A string is the sequence of its
\* characters, with BASE_URL and the fixed file name as single tokens; a
\* path is the sequence of its components; an hour start is taken by its
\* calendar fields.
\* ------------------------------------------------------------------------
Digit(n) == <<"0", "1", "2", "3", "4", "5", "6", "7", "8", "9">>[n + 1]

\* str(n) of a natural number
RECURSIVE Str(_)
Str(n) == IF n < 10 THEN <<Digit(n)>> ELSE Str(n \div 10) \o <<Digit(n % 10)>>

\* f"{n:02d}"
Pad2(n) == IF n < 10 THEN <<"0", Digit(n)>> ELSE Str(n)

\* a month field that keeps the calendar number
OneBasedMonth(month) == month

\* line 100: m0 = hour_start.month - 1
ZeroBasedMonth(month) == month - 1

\* lines 95-103
_dukascopy_tick_url(symbol, hour_start) ==
    <<"BASE_URL", "/">> \o symbol \o <<"/">> \o Str(hour_start.year)
       \o <<"/">> \o Pad2(ZeroBasedMonth(hour_start.month))
       \o <<"/">> \o Pad2(hour_start.day)
       \o <<"/">> \o Pad2(hour_start.hour) \o <<"h_ticks.bi5">>

\* pathlib's "/": an empty segment adds no component
JoinPath(path, segment) ==
    IF segment = <<>> THEN path ELSE Append(path, segment)

\* lines 415-422: cache_dir / symbol / year / zero-based month / day /
\* file name
CachePathOf(symbol, hour_start) ==
    JoinPath(
       JoinPath(
          JoinPath(
             JoinPath(JoinPath(<<<<"cache_dir">>>>, symbol),
                      Str(hour_start.year)),
             Pad2(ZeroBasedMonth(hour_start.month))),
          Pad2(hour_start.day)),
       Pad2(hour_start.hour) \o <<"h_ticks.bi5">>)

\* line 154: cache_path.with_suffix(cache_path.suffix + ".tmp")
TmpPathOf(cache_path) ==
    [cache_path EXCEPT ![Len(cache_path)] = @ \o <<".tmp">>]

\* the symbols export_range works with: what _symbol_normalise returns
NormalisedSymbols ==
    {_symbol_normalise(s).symbol :
        s \in {x \in UNION {[1..n -> Chars] : n \in 0..MaxSymbolLen} :
                 _symbol_normalise(x).err = ""}}

\* hour starts by calendar fields: both ends of the year and of the day,
\* one- and two-digit fields
CalendarHours ==
    [year : {2024, 2025}, month : {1, 2, 11, 12}, day : {1, 12},
     hour : {1, 12, 23}]

PathInputs == [symbol : NormalisedSymbols, hour_start : CalendarHours]

\* symbol arguments: every sequence of characters up to the longest
Symbols == UNION {[1..n -> Chars] : n \in 0..MaxSymbolLen}

\* payloads handed to the codec: those of the exports and the int layout
PureBodies == Bodies \cup {IntTicks, NegativeVolume}

\* price_divisor arguments: unset (0), 1, and one that does not divide the
\* raw prices
Divisors == {0, 1, 2}

NoResult == [err |-> "not called"]

InitPure ==
    /\ p_fn \in {"_symbol_normalise", "_iter_hours", "_probe_price_format",
                 "_decode_ticks", "_ticks_to_candles", "_dukascopy_tick_url"}
    /\ p_fn = "_dukascopy_tick_url" => p_args \in PathInputs
    /\ p_fn = "_symbol_normalise" => p_args \in [s : Symbols]
    /\ p_fn = "_iter_hours" =>
          p_args \in [start : Instants, end_exclusive : Instants]
    /\ p_fn = "_probe_price_format" => p_args \in [compressed : PureBodies]
    /\ p_fn = "_decode_ticks" =>
          p_args \in [hour_start : {0, HOUR_MS}, compressed : PureBodies,
                      price_format : PriceFormats,
                      price_divisor : Divisors]
    /\ p_fn = "_ticks_to_candles" =>
          p_args \in [ticks : TickLists, resample_rule : PureRules,
                      price_side : SideArgs]
    /\ p_called = FALSE
    /\ p_out = NoResult

\* lines 63-80
SymbolNormalise ==
    /\ p_fn = "_symbol_normalise" /\ ~p_called
    /\ p_out' = _symbol_normalise(p_args.s)
    /\ p_called' = TRUE
    /\ UNCHANGED <<exportVars, fetchVars, callVars, runVars, poolVars, p_fn, p_args>>

\* lines 83-92: the hours the generator yields, as a list
IterHours ==
    /\ p_fn = "_iter_hours" /\ ~p_called
    /\ p_out' = [err |-> "",
                 hours |-> _iter_hours(p_args.start, p_args.end_exclusive)]
    /\ p_called' = TRUE
    /\ UNCHANGED <<exportVars, fetchVars, callVars, runVars, poolVars, p_fn, p_args>>

\* lines 173-202
ProbePriceFormat ==
    /\ p_fn = "_probe_price_format" /\ ~p_called
    /\ p_out' = _probe_price_format(p_args.compressed)
    /\ p_called' = TRUE
    /\ UNCHANGED <<exportVars, fetchVars, callVars, runVars, poolVars, p_fn, p_args>>

\* lines 210-246
DecodeTicks ==
    /\ p_fn = "_decode_ticks" /\ ~p_called
    /\ p_out' = _decode_ticks(p_args.hour_start, p_args.compressed,
                              p_args.price_format, p_args.price_divisor)
    /\ p_called' = TRUE
    /\ UNCHANGED <<exportVars, fetchVars, callVars, runVars, poolVars, p_fn, p_args>>

\* lines 249-284
TicksToCandles ==
    /\ p_fn = "_ticks_to_candles" /\ ~p_called
    /\ p_out' = _ticks_to_candles(p_args.ticks, p_args.resample_rule,
                                  p_args.price_side)
    /\ p_called' = TRUE
    /\ UNCHANGED <<exportVars, fetchVars, callVars, runVars, poolVars, p_fn, p_args>>

\* lines 412-422 and 154: the url, the cache path and the temporary path
\* download_hour and _download_bi5 use for the hour
HourPaths ==
    /\ p_fn = "_dukascopy_tick_url" /\ ~p_called
    /\ p_out' =
          [err |-> "",
           url |-> _dukascopy_tick_url(p_args.symbol, p_args.hour_start),
           cache_path |-> CachePathOf(p_args.symbol, p_args.hour_start),
           tmp |-> TmpPathOf(CachePathOf(p_args.symbol, p_args.hour_start))]
    /\ p_called' = TRUE
    /\ UNCHANGED <<exportVars, fetchVars, callVars, runVars, poolVars, p_fn, p_args>>

NextPure ==
    \/ HourPaths
    \/ SymbolNormalise
    \/ IterHours
    \/ ProbePriceFormat
    \/ DecodeTicks
    \/ TicksToCandles

\* ------------------------------------------------------------------------
\* run_parallel_exports (parallel.py): one export per task on an outer
\* executor.  An export is taken as a whole here: it ends by returning the
\* path of its CSV or by raising.
\* ------------------------------------------------------------------------
Tasks == 1..NumTasks

ExportResult(symbol, output_csv, success, error) ==
    [symbol |-> symbol, output_csv |-> output_csv, success |-> success,
     error |-> error]

NoExportResult == ExportResult(0, "None", FALSE, "None")

NotEnded == [raises |-> "", returns |-> "running"]

NoFuture == [state |-> "none", raised |-> "", result |-> NoExportResult]

\* how export_range(probe=False) can end: with the path of the CSV, with the
\* no-data error, with an error of its arguments or of the first probe, or,
\* once the cancellation event is set, with KeyboardInterrupt
ExportEndings(cancelled) ==
    {[raises |-> "", returns |-> "csv"]}
    \cup {[raises |-> e, returns |-> "None"] :
             e \in {"RuntimeError", "ValueError"}}
    \cup (IF cancelled
          THEN {[raises |-> "KeyboardInterrupt", returns |-> "None"]}
          ELSE {})

\* a worker whose except clause catches nothing
ExceptNothing(e) == FALSE

\* parallel.py line 59, except Exception: KeyboardInterrupt derives from
\* BaseException and is not caught
ExceptException(e) == e # "KeyboardInterrupt"

\* parallel.py lines 39-61: what the future of the task holds in the end
_export_worker(task, ending) ==
    IF ending.raises = ""
    THEN [state |-> "finished", raised |-> "",
          result |-> ExportResult(task, ending.returns, TRUE, "None")]
    ELSE IF ExceptException(ending.raises)
    THEN [state |-> "finished", raised |-> "",
          result |-> ExportResult(task, "None", FALSE, ending.raises)]
    ELSE [state |-> "finished", raised |-> ending.raises,
          result |-> NoExportResult]

InitRun ==
    /\ max_workers \in 1..MaxWorkers
    /\ run_futures = [i \in Tasks |-> NoFuture]
    /\ run_results = <<>>
    /\ run_yielded = {}
    /\ run_pc = "start"
    /\ run_exc = Unset
    /\ run_ended = [i \in Tasks |-> NotEnded]

\* executor.shutdown(wait=False, cancel_futures=True): queued futures are
\* cancelled, running ones are left alone
CancelFutures(fs) ==
    [i \in Tasks |-> IF fs[i].state = "pending"
                     THEN [fs[i] EXCEPT !.state = "cancelled"]
                     ELSE fs[i]]

\* parallel.py lines 71-93: clear the event, create the executor and submit
\* one future per task
Submit ==
    /\ run_pc = "start"
    /\ cancellation_event' = FALSE
    /\ run_futures' = [i \in Tasks |-> [NoFuture EXCEPT !.state = "pending"]]
    /\ run_pc' = "loop"
    /\ UNCHANGED <<exportLocals, fetchVars, callVars, pureVars, poolVars, max_workers,
                   run_results, run_yielded, run_exc, run_ended>>

\* a thread of the outer executor takes the oldest queued task
StartExport(i) ==
    /\ run_futures[i].state = "pending"
    /\ \A j \in Tasks : j < i => run_futures[j].state # "pending"
    /\ Cardinality({j \in Tasks : run_futures[j].state = "running"})
          < max_workers
    /\ run_futures' = [run_futures EXCEPT ![i].state = "running"]
    /\ UNCHANGED <<exportVars, fetchVars, callVars, pureVars, poolVars, max_workers,
                   run_results, run_yielded, run_pc, run_exc, run_ended>>

\* parallel.py lines 39-61: the export of the task ends
FinishExport(i) ==
    /\ run_futures[i].state = "running"
    /\ \E ending \in ExportEndings(cancellation_event) :
          /\ run_futures' = [run_futures EXCEPT
                                ![i] = _export_worker(i, ending)]
          /\ run_ended' = [run_ended EXCEPT ![i] = ending]
    /\ UNCHANGED <<exportVars, fetchVars, callVars, pureVars, poolVars, max_workers,
                   run_results, run_yielded, run_pc, run_exc>>

\* parallel.py lines 95-104: as_completed hands over a finished future and
\* future.result() returns its ExportResult or raises what the worker let
\* through (lines 106-110 when that is KeyboardInterrupt)
Collect(i) ==
    /\ run_pc = "loop"
    /\ run_futures[i].state = "finished"
    /\ i \notin run_yielded
    /\ run_yielded' = run_yielded \cup {i}
    /\ IF run_futures[i].raised = ""
       THEN /\ run_results' = Append(run_results, run_futures[i].result)
            /\ UNCHANGED <<run_pc, run_exc, run_futures, cancellation_event>>
       ELSE IF run_futures[i].raised = "KeyboardInterrupt"
       THEN /\ cancellation_event' = TRUE
            /\ run_futures' = CancelFutures(run_futures)
            /\ run_pc' = "raised"
            /\ run_exc' = "KeyboardInterrupt"
            /\ UNCHANGED run_results
       ELSE /\ run_pc' = "closing"
            /\ run_exc' = run_futures[i].raised
            /\ UNCHANGED <<run_results, run_futures, cancellation_event>>
    /\ UNCHANGED <<exportLocals, fetchVars, callVars, pureVars, poolVars, max_workers,
                   run_ended>>

\* parallel.py lines 112-119: the try block is left with the event not set;
\* executor.shutdown(wait=True) returns once no export is running, then the
\* results are returned or the exception goes on
Shutdown ==
    /\ \/ run_pc = "loop" /\ run_yielded = Tasks
       \/ run_pc = "closing"
    /\ \A i \in Tasks : run_futures[i].state = "finished"
    /\ run_pc' = IF run_exc = Unset THEN "returned" ELSE "raised"
    /\ UNCHANGED <<exportVars, fetchVars, callVars, pureVars, poolVars, max_workers,
                   run_futures, run_results, run_yielded, run_exc,
                   run_ended>>

\* parallel.py lines 106-117: KeyboardInterrupt reaches the calling thread
\* inside the loop; the event is set, the queued futures are cancelled
\* without waiting, and the interrupt goes on
InterruptRun ==
    /\ run_pc = "loop"
    /\ run_yielded # Tasks
    /\ cancellation_event' = TRUE
    /\ run_futures' = CancelFutures(run_futures)
    /\ run_pc' = "raised"
    /\ run_exc' = "KeyboardInterrupt"
    /\ UNCHANGED <<exportLocals, fetchVars, callVars, pureVars, poolVars, max_workers,
                   run_results, run_yielded, run_ended>>

NextRun ==
    \/ Submit
    \/ \E i \in Tasks : StartExport(i)
    \/ \E i \in Tasks : FinishExport(i)
    \/ \E i \in Tasks : Collect(i)
    \/ Shutdown
    \/ InterruptRun

\* ------------------------------------------------------------------------
\* The fetch pipeline of export_range step by step (export.py lines
\* 442-531): every hour is submitted at once, the pool threads run
\* download_hour, and the calling thread stores and drains what
\* as_completed hands over.  Hours are numbered by their position in
\* hours_to_fetch.
\* ------------------------------------------------------------------------
Positions == 1..PoolHours

\* kinds of bytes a fetch returns: bytes the drain loop is done with at
\* once (None, b"", a payload that decodes), and a payload whose decoding
\* raises lzma.LZMAError
FetchKinds == {"plain", "corrupt"}

InitPool ==
    /\ pl_futures = [i \in Positions |-> "none"]
    /\ pl_results = [i \in Positions |-> "unset"]
    /\ pl_yielded = {}
    /\ pl_hour_data = {}
    /\ pl_next_to_process = 0
    /\ pl_pc = "start"

PoolRunning == {i \in Positions : pl_futures[i] = "running"}

\* a pool that starts a thread for every task
IdleWorkerAlways(running) == TRUE

\* line 450, max_workers: a queued task starts when fewer threads than the
\* pool size are busy
IdleWorker(running) ==
    Cardinality(running) < DOWNLOAD_THREADS_PER_INSTRUMENT

\* line 451: one future per hour is submitted
PoolSubmit ==
    /\ pl_pc = "start"
    /\ pl_futures' = [i \in Positions |-> "pending"]
    /\ pl_pc' = "wait"
    /\ UNCHANGED <<exportVars, fetchVars, callVars, pureVars, runVars,
                   pl_results, pl_yielded, pl_hour_data, pl_next_to_process>>

\* a pool thread takes the oldest queued download_hour task and enters
\* _download_bi5 (line 427)
PoolStartFetch(i) ==
    /\ pl_futures[i] = "pending"
    /\ \A j \in Positions : j < i => pl_futures[j] # "pending"
    /\ IdleWorker(PoolRunning)
    /\ pl_futures' = [pl_futures EXCEPT ![i] = "running"]
    /\ UNCHANGED <<exportVars, fetchVars, callVars, pureVars, runVars,
                   pl_results, pl_yielded, pl_hour_data, pl_next_to_process,
                   pl_pc>>

\* lines 427-433: _download_bi5 returns and download_hour ends
PoolCompleteFetch(i) ==
    /\ pl_futures[i] = "running"
    /\ \E kind \in FetchKinds :
          pl_results' = [pl_results EXCEPT ![i] = kind]
    /\ pl_futures' = [pl_futures EXCEPT ![i] = "finished"]
    /\ UNCHANGED <<exportVars, fetchVars, callVars, pureVars, runVars,
                   pl_yielded, pl_hour_data, pl_next_to_process, pl_pc>>

\* lines 453-459: as_completed hands over a finished future and its result
\* is stored in hour_data
PoolYield(i) ==
    /\ pl_pc = "wait"
    /\ pl_futures[i] = "finished"
    /\ i \notin pl_yielded
    /\ pl_yielded' = pl_yielded \cup {i}
    /\ pl_hour_data' = pl_hour_data \cup {i}
    /\ pl_pc' = "drain"
    /\ UNCHANGED <<exportVars, fetchVars, callVars, pureVars, runVars,
                   pl_futures, pl_results, pl_next_to_process>>

\* lines 461-531: the hour at the cursor is popped and processed; a payload
\* that raises lzma.LZMAError takes the calling thread into the re-fetch of
\* line 508
PoolDrainHour ==
    /\ pl_pc = "drain"
    /\ pl_next_to_process < PoolHours
    /\ (pl_next_to_process + 1) \in pl_hour_data
    /\ pl_hour_data' = pl_hour_data \ {pl_next_to_process + 1}
    /\ pl_next_to_process' = pl_next_to_process + 1
    /\ pl_pc' = IF pl_results[pl_next_to_process + 1] = "corrupt"
                THEN "refetch" ELSE "drain"
    /\ UNCHANGED <<exportVars, fetchVars, callVars, pureVars, runVars,
                   pl_futures, pl_results, pl_yielded>>

\* lines 508-531: the re-fetch returns and the iteration ends
PoolRefetchDone ==
    /\ pl_pc = "refetch"
    /\ pl_pc' = "drain"
    /\ UNCHANGED <<exportVars, fetchVars, callVars, pureVars, runVars,
                   pl_futures, pl_results, pl_yielded, pl_hour_data,
                   pl_next_to_process>>

\* lines 461-465: the hour at the cursor has not arrived
PoolDrainBreak ==
    /\ pl_pc = "drain"
    /\ \/ pl_next_to_process = PoolHours
       \/ (pl_next_to_process + 1) \notin pl_hour_data
    /\ pl_pc' = "wait"
    /\ UNCHANGED <<exportVars, fetchVars, callVars, pureVars, runVars,
                   pl_futures, pl_results, pl_yielded, pl_hour_data,
                   pl_next_to_process>>

\* as_completed is exhausted and the with-block is left
PoolFinish ==
    /\ pl_pc = "wait"
    /\ pl_yielded = Positions
    /\ pl_pc' = "done"
    /\ UNCHANGED <<exportVars, fetchVars, callVars, pureVars, runVars,
                   pl_futures, pl_results, pl_yielded, pl_hour_data,
                   pl_next_to_process>>

NextPool ==
    \/ PoolSubmit
    \/ \E i \in Positions : PoolStartFetch(i)
    \/ \E i \in Positions : PoolCompleteFetch(i)
    \/ \E i \in Positions : PoolYield(i)
    \/ PoolDrainHour
    \/ PoolRefetchDone
    \/ PoolDrainBreak
    \/ PoolFinish

\* ------------------------------------------------------------------------
\* Specifications
\* ------------------------------------------------------------------------
\* no fetch pipeline is followed step by step
PoolIdle ==
    /\ pl_futures = [i \in Positions |-> "none"]
    /\ pl_results = [i \in Positions |-> "unset"]
    /\ pl_yielded = {}
    /\ pl_hour_data = {}
    /\ pl_next_to_process = 0
    /\ pl_pc = "idle"

\* no run_parallel_exports call is under way
RunIdle ==
    /\ max_workers = 1
    /\ run_futures = [i \in Tasks |-> NoFuture]
    /\ run_results = <<>>
    /\ run_yielded = {}
    /\ run_pc = "idle"
    /\ run_exc = Unset
    /\ run_ended = [i \in Tasks |-> NotEnded]

\* no helper function is applied on its own during an export
PureIdle ==
    /\ p_fn = "none"
    /\ p_args = [none |-> 0]
    /\ p_called = FALSE
    /\ p_out = NoResult

\* the client of SpecCall makes no call during an export
CallIdle ==
    /\ c_caching = FALSE
    /\ c_retries = 0
    /\ c_file = NoFile
    /\ c_dir = FALSE
    /\ c_n = "none"
    /\ c_prev = 0
    /\ c_last = NoCall

\* the callers of SpecFetch stay idle during an export
FetchIdle ==
    /\ f_caching = FALSE
    /\ f_retries = 1
    /\ f_payload = GoodA
    /\ fs_cache = Absent
    /\ fs_tmp = Absent
    /\ f_pc = [p \in Fetchers |-> "idle"]
    /\ f_handle = [p \in Fetchers |-> "none"]
    /\ f_attempt = [p \in Fetchers |-> 0]
    /\ f_delays = [p \in Fetchers |-> <<>>]
    /\ f_ret = [p \in Fetchers |-> None]
    /\ f_hit = [p \in Fetchers |-> FALSE]
    /\ f_read = [p \in Fetchers |-> Absent]
    /\ f_after = [p \in Fetchers |-> {}]

\* no export runs under SpecFetch
ExportIdle ==
    /\ start_utc = 0
    /\ end_utc_inclusive = 0
    /\ resample_rule = HOUR_MS
    /\ price_side = "bid"
    /\ price_divisor = 1
    /\ cache_dir = FALSE
    /\ probe = FALSE
    /\ upstream = NoUpstream
    /\ cache = [h \in CachePaths |-> NoFile]
    /\ hours_to_fetch = <<>>
    /\ hours_total = 0
    /\ hours_missing_404 = 0
    /\ hours_empty_200 = 0
    /\ hours_downloaded = 0
    /\ hours_decode_failed = 0
    /\ hours_resampled_nonempty = 0
    /\ detected_format = Unset
    /\ all_frames = <<>>
    /\ hour_data = {}
    /\ next_to_process = 0
    /\ futures = [h \in CachePaths |-> "none"]
    /\ results = [h \in CachePaths |-> None]
    /\ yielded = {}
    /\ dl_progress = 0
    /\ rs_progress = 0
    /\ cancellation_event = FALSE
    /\ pc = "idle"
    /\ exc = Unset
    /\ out_csv = NoOutput
    /\ drained = <<>>
    /\ all_ticks = <<>>
    /\ arrival = <<>>

Init == InitExport /\ FetchIdle /\ CallIdle /\ PureIdle /\ RunIdle /\ PoolIdle
Next == NextExport
Spec == Init /\ [][Next]_vars

\* an export whose upstream answers and cache are settled before it starts
FixedStarts == {DAY_MS - HOUR_MS, DAY_MS - 2 * HOUR_MS}

\* for an hour: the cache file at the start, the answers to the attempts
\* of its fetch and of its self-heal re-fetch, and whether its cache file
\* can be unlinked
FixedUpstream(seed, fetch, heal, unlink_ok) ==
    [fixed |-> TRUE, seed |-> seed, fetch |-> fetch, heal |-> heal,
     unlink_ok |-> unlink_ok]

FixedUpstreams ==
    {FixedUpstream(NoFile, fetch, <<Http(200, GoodA)>>, TRUE) :
        fetch \in {<<Http(200, GoodA)>>, <<Http(200, GoodB)>>,
                   <<Http(404, EmptyBody)>>,
                   <<TransportError, Http(200, LateTick)>>,
                   <<Http(200, Truncated)>>, <<Http(200, Garbage)>>}}
    \cup {FixedUpstream(NoFile, <<Http(200, Truncated)>>,
                        <<Http(404, EmptyBody)>>, TRUE),
          FixedUpstream(Truncated, <<Http(200, GoodA)>>,
                        <<Http(200, GoodB)>>, TRUE),
          FixedUpstream(Truncated, <<Http(200, GoodA)>>,
                        <<Http(200, GoodB)>>, FALSE)}

InitFixed ==
    /\ start_utc \in FixedStarts
    /\ end_utc_inclusive \in EndChoices
    /\ resample_rule \in RuleChoices
    /\ price_side = "mid"
    /\ price_divisor = 1
    /\ cache_dir \in BOOLEAN
    /\ probe \in BOOLEAN
    /\ upstream \in [CachePaths -> FixedUpstreams \cup {FreeUpstream}]
    /\ \A h \in CachePaths :
          /\ upstream[h].fixed <=> h >= start_utc
          /\ upstream[h].seed # NoFile => cache_dir
    /\ cache = [h \in CachePaths |-> upstream[h].seed]
    /\ InitLocals

InitD == InitFixed /\ FetchIdle /\ CallIdle /\ PureIdle /\ RunIdle /\ PoolIdle
NextD == NextExport
SpecFixed == InitD /\ [][NextD]_vars

\* an export that run_parallel_exports may interrupt
NextCancel == NextExport \/ Interrupt
SpecCancel == Init /\ [][NextCancel]_vars

InitF == InitFetch /\ ExportIdle /\ CallIdle /\ PureIdle /\ RunIdle /\ PoolIdle
NextF == NextFetch
SpecFetch == InitF /\ [][NextF]_vars

InitC == InitCall /\ ExportIdle /\ FetchIdle /\ PureIdle /\ RunIdle /\ PoolIdle
NextC == NextCall
SpecCall == InitC /\ [][NextC]_vars

InitP == InitPure /\ ExportIdle /\ FetchIdle /\ CallIdle /\ RunIdle /\ PoolIdle
NextP == NextPure
SpecPure == InitP /\ [][NextP]_vars

InitR == InitRun /\ ExportIdle /\ FetchIdle /\ CallIdle /\ PureIdle /\ PoolIdle
NextR == NextRun
SpecRun == InitR /\ [][NextR]_vars

InitQ ==
    InitPool /\ ExportIdle /\ FetchIdle /\ CallIdle /\ PureIdle /\ RunIdle
NextQ == NextPool
SpecPool == InitQ /\ [][NextQ]_vars

\* ------------------------------------------------------------------------
\* Properties
\* ------------------------------------------------------------------------
Last(seq) == seq[Len(seq)]

Finished == pc \in {"returned", "raised"}

\* the exception left the drain loop (not the no-data error raised after it)
LoopRaised ==
    \/ pc = "unwinding"
    \/ pc = "raised" /\ exc \notin {"RuntimeError", "IndexError"}

CountOutcome(S) ==
    Cardinality({i \in 1..Len(drained) : drained[i].outcome \in S})

\* C1: the drain loop consumes the hours in ascending chronological order,
\* whatever the order in which the fetches complete: the hours consumed so
\* far are always exactly the first next_to_process hours of the range, in
\* their order.
C1_DrainInOrder ==
    /\ Len(drained) = next_to_process
    /\ \A i \in 1..Len(drained) : drained[i].hour = hours_to_fetch[i]
    /\ \A i \in 1..(Len(drained) - 1) : drained[i].hour < drained[i + 1].hour

\* two hours arrived in reverse order and both have been consumed
C1_Witness ==
    /\ Len(hours_to_fetch) = 2
    /\ arrival = <<hours_to_fetch[2], hours_to_fetch[1]>>
    /\ Len(drained) = 2

\* C2: an undecompressable payload never aborts export_range, also when it
\* is the first non-empty payload of the run: no LZMAError leaves the call
\* and all hours are drained when it ends.
C2_MalformedNeverAborts ==
    ~probe =>
       /\ exc # "LZMAError"
       /\ Finished => next_to_process = Len(hours_to_fetch)

\* C3: a Missing or Empty outcome and a decode error met once the format is
\* detected never end the run: such an hour is counted, the loop goes on to
\* the next hour, and only an hour whose probe or aggregation raises leaves
\* the loop.
C3_HourFailuresNonFatal ==
    ~probe =>
       /\ hours_missing_404 = CountOutcome({"missing"})
       /\ hours_empty_200 = CountOutcome({"empty"})
       /\ hours_downloaded = Len(drained) - CountOutcome({"missing", "empty"})
       /\ hours_decode_failed = CountOutcome({"decode_error", "heal_failed"})
       /\ \A i \in 1..Len(drained) :
             drained[i].outcome \in
                {"decode_error", "heal_missing", "heal_failed"}
                => detected_format # Unset
       /\ LoopRaised /\ exc # "KeyboardInterrupt" =>
             /\ drained # <<>>
             /\ Last(drained).outcome \in {"probe_error", "config_error"}
       /\ Finished /\ ~LoopRaised => Len(drained) = Len(hours_to_fetch)

\* an hour failed to decode, a later hour was drained, and the call returned
C3_Witness ==
    /\ pc = "returned"
    /\ Len(drained) = 2
    /\ drained[1].outcome \in {"decode_error", "heal_failed", "heal_missing"}
    /\ drained[2].outcome = "bars"

\* C4: without interruption export_range returns an output path exactly when
\* the final bar set (sorted, clipped, de-duplicated) is non-empty, and with
\* an empty final bar set it raises the no-data error and writes nothing.
C4_PathIffFinalBars ==
    ~probe =>
       /\ pc = "returned" => out_csv.written /\ out_csv.rows # <<>>
       /\ pc = "raised" => ~out_csv.written

\* C5: a range without any hour is not an error: export_range, in normal and
\* in probe mode, ends without an exception.
C5_EmptyRangeIsNoError ==
    pc = "raised" => hours_to_fetch # <<>>

\* C6: every dequeued hour advances the resample progress exactly once, and
\* when export_range is over both progress tasks stand at the number of
\* hours.
C6_ProgressAccountsEveryHour ==
    ~probe =>
       /\ rs_progress = next_to_process
       /\ Finished => /\ dl_progress = hours_total
                      /\ rs_progress = hours_total

\* C7: a call that finds the cache entry reads the zero-byte marker or a
\* complete payload, never a partially written file.
C7_NoPartialRead ==
    \A p \in Fetchers :
       f_hit[p] /\ f_pc[p] = "done" => f_read[p] \in {{}, FullFile}

\* the aggregation of all decoded ticks of the range, clipped to the range
ReferenceBars ==
    Clip(_ticks_to_candles(all_ticks, resample_rule, price_side).bars,
         start_utc, end_utc_inclusive)

\* C8: each bar of the final output is the aggregation of all decoded ticks
\* of its bucket (first, max, min, last price and summed volume), also for
\* buckets wider than one hour.
C8_BarsAggregateAllTicks ==
    pc = "returned" /\ ~probe => out_csv.rows = ReferenceBars

\* C9: a call made while the cache entry exists issues no request and
\* returns the bytes of the entry: empty bytes for a zero-byte entry, the
\* content otherwise.
C9_CacheHitNoNetwork ==
    \A p \in Fetchers :
       f_hit[p] =>
          /\ f_attempt[p] = 0
          /\ f_pc[p] = "done"
          /\ f_ret[p] = FileBytes(f_read[p])
          /\ (f_read[p] = {}) <=> (f_ret[p].size = 0)
          /\ f_ret[p] # None

\* a call was served from a zero-byte entry
C9_Witness ==
    \E p \in Fetchers :
       f_hit[p] /\ f_pc[p] = "done" /\ f_read[p] = {} /\ f_ret[p] = EmptyBody

\* q called after p had returned, and nobody else has called
CalledInTurn(p, q) ==
    /\ p # q
    /\ f_pc[p] = "done"
    /\ f_pc[q] = "done"
    /\ p \in f_after[q]
    /\ \A r \in Fetchers \ {p, q} : f_pc[r] = "idle"

\* C10 as claimed: whatever upstream answers to the first of two calls in
\* turn that starts without a cache entry, the two calls issue exactly one
\* request and return the same.
C10_OneRequestWhateverAnswer ==
    \A p, q \in Fetchers :
       f_caching /\ CalledInTurn(p, q) /\ ~f_hit[p] =>
          /\ f_attempt[p] + f_attempt[q] = 1
          /\ f_ret[q] = f_ret[p]

\* C10 amended: when the first of two calls in turn returns Empty or a
\* Payload, the second is served from the cache without a request and
\* returns the same bytes, and the two calls issue exactly one request if
\* the first attempt of the first call was answered; when the first call
\* returns Missing nothing is cached and the second call asks upstream again.
C10_SecondCallFromCache ==
    \A p, q \in Fetchers :
       f_caching /\ CalledInTurn(p, q) /\ ~f_hit[p] =>
          IF f_ret[p] # None
          THEN /\ f_hit[q]
               /\ f_attempt[q] = 0
               /\ f_ret[q] = f_ret[p]
               /\ f_delays[p] = <<>> => f_attempt[p] + f_attempt[q] = 1
          ELSE /\ ~f_hit[q]
               /\ f_attempt[q] >= 1

\* a payload was fetched by one request and then served from the cache
C10_Witness ==
    \E p, q \in Fetchers :
       /\ f_caching /\ CalledInTurn(p, q) /\ ~f_hit[p]
       /\ f_ret[p] = f_payload
       /\ f_ret[q] = f_payload
       /\ f_attempt[p] = 1
       /\ f_attempt[q] = 0

\* ------------------------------------------------------------------------
\* Claims about one _download_bi5 call (SpecCall)
\* ------------------------------------------------------------------------
\* the latest call ended on a 404 answer
EndedOn404 ==
    c_n # "none" /\ c_last.last.kind = "http" /\ c_last.last.status = 404

\* C11: a 404 answer ends the call at once with Missing (None), whatever
\* retries is: the 404 is the last request of the call, the only sleeps are
\* those after the failed attempts before it, and neither a cache entry nor
\* the cache directory is created.
C11_NotFoundIsMissing ==
    EndedOn404 =>
       /\ c_last.ret = None
       /\ c_last.calls = c_last.failed + 1
       /\ Len(c_last.delays) = c_last.failed
       /\ c_last.op = "none"
       /\ c_last.after = c_last.before
       /\ c_last.dir_after = c_last.dir_before

\* with caching on, no directory yet and five attempts to spare, the first
\* request is answered 404
C11_Witness ==
    /\ EndedOn404
    /\ c_caching
    /\ c_retries = MaxAttempts
    /\ c_last.calls = 1
    /\ c_last.delays = <<>>
    /\ ~c_dir
    /\ c_file = NoFile

\* the latest call missed the cache and ended on a 2xx answer
EndedOnSuccess ==
    /\ c_n # "none"
    /\ ~c_last.hit
    /\ c_last.last.kind = "http"
    /\ c_last.last.status >= 200
    /\ c_last.last.status < 300

\* C12: on a cache miss a 2xx answer is classified by the length n of its
\* body: n = 0 and 0 < n < 64 give Empty (empty bytes) and, with caching, a
\* zero-byte cache entry; n >= 64 gives the body as Payload and, with
\* caching, a cache entry holding the body.  Without caching the same is
\* returned and nothing is written.
C12_ClassifiedByLength ==
    EndedOnSuccess =>
       LET body == c_last.last.body
       IN  /\ body.size < MIN_PAYLOAD_LEN =>
                /\ c_last.ret = EmptyBody
                /\ c_caching => c_last.after = EmptyBody
           /\ body.size >= MIN_PAYLOAD_LEN =>
                /\ c_last.ret = body
                /\ c_caching => c_last.after = body
           /\ c_caching => c_last.dir_after
           /\ ~c_caching =>
                /\ c_last.after = NoFile
                /\ c_last.before = NoFile
                /\ ~c_last.dir_after

\* with caching on, a body of 10 noise bytes came back: the call returned
\* empty bytes and left a zero-byte entry
C12_Witness ==
    /\ EndedOnSuccess
    /\ c_caching
    /\ c_last.last.body = TinyBody
    /\ c_last.before = NoFile
    /\ c_file = EmptyBody
    /\ c_last.ret.size = 0

\* the latest call missed the cache
Missed == c_n # "none" /\ ~c_last.hit

\* the answer the latest call ended on sent it into the except branch
EndedOnFailure ==
    /\ Missed
    /\ c_last.last.kind # "none"
    /\ ~NotFound(c_last.last)
    /\ AttemptFails(c_last.last)

\* C13: for every retries >= 0 a call that misses the cache returns after at
\* most retries requests, sleeps exactly once between two consecutive
\* attempts and never after the last one, goes on to another attempt after
\* every failure while attempts are left, and returns Missing (None) when
\* all retries attempts failed.
C13_BoundedRetries ==
    Missed =>
       /\ c_last.calls <= c_retries
       /\ c_last.failed <= c_last.calls
       /\ Len(c_last.delays) = Max(c_last.calls - 1, 0)
       /\ EndedOnFailure => c_last.calls = c_retries
       /\ c_last.failed = c_retries => c_last.ret = None
       /\ c_last.failed = c_last.calls => c_last.after = c_last.before

\* six attempts all met a transport failure: five sleeps, then Missing
C13_Witness ==
    /\ Missed
    /\ c_retries = MaxAttempts
    /\ c_last.failed = MaxAttempts
    /\ c_last.last = TransportError
    /\ Len(c_last.delays) = MaxAttempts - 1
    /\ c_last.ret = None

\* C14: within one call the sleep after the k-th failed attempt is
\* min(0.5 * 2^(k-1), 4.0) seconds, that is 0.5, 1, 2, 4, 4, ..., and this
\* holds for a second call as for the first, however many attempts of the
\* call before it had failed.
C14_BackoffSchedule ==
    c_n # "none" =>
       \A k \in 1..Len(c_last.delays) :
          c_last.delays[k] =
             Min(RETRY_BASE_DELAY * Pow2(k - 1), RETRY_MAX_DELAY)

\* a second call slept 0.5, 1, 2, 4 and 4 seconds after a call with at least
\* two failed attempts
C14_Witness ==
    /\ c_n = "twice"
    /\ c_prev >= 2
    /\ Len(c_last.delays) = 5
    /\ c_last.delays[1] = RETRY_BASE_DELAY
    /\ c_last.delays[2] = 2 * RETRY_BASE_DELAY
    /\ c_last.delays[4] = RETRY_MAX_DELAY
    /\ c_last.delays[5] = RETRY_MAX_DELAY

\* C15: an answer whose status is neither 404 nor 2xx is a failed attempt:
\* a call ends on such an answer only when no attempt is left, it then
\* returns Missing (None), and the body of the answer is neither returned
\* nor written to the cache.
C15_NonSuccessIsRetried ==
    /\ Missed
    /\ c_last.last.kind = "http"
    /\ c_last.last.status # 404
    /\ (c_last.last.status < 200 \/ c_last.last.status >= 300)
    => /\ c_last.calls = c_retries
       /\ c_last.ret = None
       /\ c_last.op = "none"
       /\ c_last.after = c_last.before

\* ------------------------------------------------------------------------
\* Claims about the final output of export_range (Spec)
\* ------------------------------------------------------------------------
\* C16: the rows written by export_range have strictly increasing bucket
\* starts, every bucket start lies between start_utc and the end of the day
\* of end_utc_inclusive, and every bucket holds at least one decoded tick.
C16_OutputSortedClippedNoFiller ==
    out_csv.written =>
       LET rows == out_csv.rows
       IN  /\ \A i \in 1..(Len(rows) - 1) : rows[i].t < rows[i + 1].t
           /\ \A i \in 1..Len(rows) :
                 /\ rows[i].t >= start_utc
                 /\ rows[i].t < EndExclusive(end_utc_inclusive)
                 /\ \E k \in 1..Len(all_ticks) :
                       BucketOf(all_ticks[k].ts, resample_rule) = rows[i].t

\* the frames (in hour order) that hold a bar of bucket t
FramesWith(t) ==
    {i \in 1..Len(all_frames) :
        \E j \in 1..Len(all_frames[i]) : all_frames[i][j].t = t}

\* the bar of bucket t in the frame of the latest hour that has one
LatestBar(t) ==
    LET i == CHOOSE m \in FramesWith(t) : \A n \in FramesWith(t) : n <= m
        f == all_frames[i]
    IN  f[CHOOSE j \in 1..Len(f) : f[j].t = t]

\* C17: when the frames of several hours hold a bar of the same bucket, the
\* output holds exactly one row for the bucket, and it is the bar of the
\* latest of those hours, for every input.
C17_KeepsBarOfLatestHour ==
    out_csv.written =>
       LET rows == out_csv.rows
       IN  /\ \A i, j \in 1..Len(rows) : rows[i].t = rows[j].t => i = j
           /\ \A i \in 1..Len(rows) : rows[i] = LatestBar(rows[i].t)

\* ------------------------------------------------------------------------
\* Claims about the helper functions (SpecPure)
\* ------------------------------------------------------------------------
\* C18: _ticks_to_candles fails with the invalid-argument error (ValueError)
\* for every price_side outside bid, ask and mid, whatever the tick list,
\* the empty one included.
C18_InvalidSideFails ==
    /\ p_fn = "_ticks_to_candles"
    /\ p_called
    /\ p_args.price_side \notin PriceSides
    => p_out.err = "ValueError"

\* the hour at or after t
CeilHour(t) == ((t + HOUR_MS - 1) \div HOUR_MS) * HOUR_MS

\* the hours of _iter_hours are on the hour, one hour apart, start at start
\* rounded up and all lie before end_exclusive
IterHoursShape ==
    LET hs == p_out.hours
    IN  /\ \A i \in 1..Len(hs) : hs[i] % HOUR_MS = 0
        /\ \A i \in 1..(Len(hs) - 1) : hs[i + 1] = hs[i] + HOUR_MS
        /\ hs # <<>> => hs[1] = CeilHour(p_args.start)
        /\ \A i \in 1..Len(hs) : hs[i] < p_args.end_exclusive

\* whole hours that fit between start rounded up and end_exclusive
WholeHours(start, end_exclusive) ==
    IF CeilHour(start) >= end_exclusive THEN 0
    ELSE (end_exclusive - CeilHour(start)) \div HOUR_MS

\* hour starts from start rounded up to before end_exclusive
HourStarts(start, end_exclusive) ==
    IF CeilHour(start) >= end_exclusive THEN 0
    ELSE (end_exclusive - CeilHour(start) + HOUR_MS - 1) \div HOUR_MS

\* C19 as stated: for all start and end_exclusive the hours of _iter_hours
\* are on the hour, one hour apart, start at start rounded up, lie before
\* end_exclusive, and their number is the count of whole hours between
\* start rounded up and end_exclusive (zero when that start is not before
\* the end).
C19_CountIsWholeHours ==
    p_fn = "_iter_hours" /\ p_called =>
       /\ IterHoursShape
       /\ Len(p_out.hours) = WholeHours(p_args.start, p_args.end_exclusive)

\* C19 amended: the same shape, and the number of hours is the number of
\* hour starts from start rounded up to before end_exclusive, a partial last
\* hour included; it is the count of whole hours when end_exclusive is on
\* the hour.
C19_CountIsHourStarts ==
    p_fn = "_iter_hours" /\ p_called =>
       /\ IterHoursShape
       /\ Len(p_out.hours) = HourStarts(p_args.start, p_args.end_exclusive)
       /\ p_args.end_exclusive % HOUR_MS = 0 =>
             Len(p_out.hours) = WholeHours(p_args.start, p_args.end_exclusive)

\* start and end_exclusive both off the hour, start rounded up, and a
\* partial last hour yielded
C19_Witness ==
    /\ p_fn = "_iter_hours"
    /\ p_called
    /\ p_args.start % HOUR_MS # 0
    /\ p_args.end_exclusive % HOUR_MS # 0
    /\ Len(p_out.hours) = 2
    /\ p_out.hours[1] > p_args.start
    /\ WholeHours(p_args.start, p_args.end_exclusive) = 1

Probed == p_fn = "_probe_price_format" /\ p_called

Decoded == p_fn = "_decode_ticks" /\ p_called

\* the stream decompresses to its end
Complete(compressed) == compressed.end = "eos"

\* the decompressed length is a multiple of the record length
WholeRecords(compressed) == AvailLen(compressed) % RECORD_LEN = 0

\* a failed call returns nothing
NoTicksOnError == p_out.err # "" => DOMAIN p_out = {"err"}

\* C20 as stated: _decode_ticks fails with ValueError when the decompressed
\* length is not a multiple of 20 and when the format is not recognized,
\* and produces no ticks then; _probe_price_format fails with ValueError
\* whenever fewer than 20 decompressed bytes are available, an empty or
\* truncated stream included.
C20_MalformedIsValueError ==
    /\ Decoded =>
          LET c == p_args.compressed
          IN  /\ Complete(c) /\ ~WholeRecords(c) => p_out.err = "ValueError"
              /\ Complete(c) /\ p_args.price_format \notin {"float", "int"}
                    => p_out.err = "ValueError"
              /\ NoTicksOnError
    /\ Probed /\ AvailLen(p_args.compressed) < RECORD_LEN
          => p_out.err = "ValueError"

\* C20 amended: _decode_ticks fails with LZMAError when the stream is
\* incomplete or rejected by the decoder, with ValueError when the complete
\* stream has a length that is not a multiple of 20 or the format is not
\* recognized, and succeeds otherwise; a failure produces no ticks.
\* _probe_price_format fails with LZMAError when the decoder rejects the
\* bytes before 20 of them are read, with ValueError when an empty,
\* truncated or complete stream gives fewer than 20 bytes, and succeeds
\* otherwise.
C20_ErrorByStreamKind ==
    /\ Decoded =>
          LET c == p_args.compressed
          IN  /\ p_out.err =
                    IF ~Complete(c) THEN "LZMAError"
                    ELSE IF ~WholeRecords(c) THEN "ValueError"
                    ELSE IF p_args.price_format \notin {"float", "int"}
                         THEN "ValueError"
                    ELSE ""
              /\ NoTicksOnError
    /\ Probed =>
          LET c == p_args.compressed
          IN  p_out.err =
                 IF AvailLen(c) >= RECORD_LEN THEN ""
                 ELSE IF c.end = "corrupt" THEN "LZMAError"
                 ELSE "ValueError"

\* the probe of bytes that are no LZMA stream has failed
C20_Witness ==
    /\ Probed
    /\ p_args.compressed.end = "corrupt"
    /\ AvailLen(p_args.compressed) < RECORD_LEN
    /\ p_out.err = "LZMAError"

\* the decoded price p is the raw integer n over the divisor d
IsRatio(p, n, d) == p.den > 0 /\ p.num * d = p.den * n

\* C21: for a payload of n 20-byte records _decode_ticks returns n ticks in
\* record order, the i-th with timestamp hour_start + ms of the i-th record;
\* in the int layout each price is the raw integer over the divisor, and a
\* divisor of 0 gives what divisor 1 gives.
C21_DecodesEveryRecord ==
    Decoded /\ p_out.err = "" =>
       LET raw == p_args.compressed.raw
           d == IF p_args.price_divisor = 0 THEN 1 ELSE p_args.price_divisor
           ticks == p_out.ticks
       IN  /\ Len(ticks) * RECORD_LEN = AvailLen(p_args.compressed)
           /\ \A i \in 1..Len(raw) :
                 ticks[i].ts = p_args.hour_start + raw[i].ms
           /\ p_args.price_format = "int" =>
                 \A i \in 1..Len(raw) :
                    /\ IsRatio(ticks[i].bid, raw[i].bid, d)
                    /\ IsRatio(ticks[i].ask, raw[i].ask, d)
           /\ p_args.price_divisor = 0 =>
                 p_out = _decode_ticks(p_args.hour_start, p_args.compressed,
                                       p_args.price_format, 1)

\* two int-layout records decoded with a divisor that does not divide them
C21_Witness ==
    /\ Decoded
    /\ p_out.err = ""
    /\ p_args.price_format = "int"
    /\ p_args.price_divisor = 2
    /\ p_args.hour_start = HOUR_MS
    /\ Len(p_out.ticks) = 2
    /\ p_out.ticks[1].ask = [num |-> 5, den |-> 2]
    /\ p_out.ticks[2].ts = HOUR_MS + HOUR_MS \div 2

\* ------------------------------------------------------------------------
\* Claims about run_parallel_exports (SpecRun)
\* ------------------------------------------------------------------------
RunOver == run_pc \in {"returned", "raised"}

\* the results that the list holds for task i
ResultsOf(i) == {k \in 1..Len(run_results) : run_results[k].symbol = i}

\* C22: a task whose export_range raised an error (the no-data error
\* included) has an ExportResult with success false and the text of the
\* error, and when the run is over without interruption it has returned,
\* every task has run to its end, and the list holds exactly one result per
\* task.
C22_FailuresStayLocal ==
    /\ \A k \in 1..Len(run_results) :
          LET r == run_results[k]
              e == run_ended[r.symbol]
          IN  IF e.raises = ""
              THEN r = ExportResult(r.symbol, e.returns, TRUE, "None")
              ELSE r = ExportResult(r.symbol, "None", FALSE, e.raises)
    /\ RunOver /\ ~cancellation_event =>
          /\ run_pc = "returned"
          /\ \A i \in Tasks :
                /\ run_futures[i].state = "finished"
                /\ Cardinality(ResultsOf(i)) = 1
          /\ Len(run_results) = NumTasks

\* the run has returned, and a task that ended with the no-data error was
\* collected before a task that wrote its CSV
C22_Witness ==
    /\ run_pc = "returned"
    /\ \E k \in 1..Len(run_results) :
          /\ ~run_results[k].success
          /\ run_results[k].error = "RuntimeError"
          /\ \E l \in (k + 1)..Len(run_results) :
                /\ run_results[l].success
                /\ run_results[l].output_csv = "csv"

\* ------------------------------------------------------------------------
\* Claims about an export under cancellation (SpecCancel)
\* ------------------------------------------------------------------------
\* the loop has seen the cancellation event at a fetch-completion boundary
CancelObserved == pc = "unwinding" /\ exc = "KeyboardInterrupt"

\* C23: once an export has observed the cancellation signal at a
\* fetch-completion boundary, no hour fetch that has not begun is begun.
C23_NoFetchBeginsAfterCancel ==
    [][CancelObserved =>
          \A h \in CachePaths :
             futures[h] = "pending" => futures'[h] = "pending"]_vars

\* ------------------------------------------------------------------------
\* Further claims about the helper functions (SpecPure)
\* ------------------------------------------------------------------------
Normalised == p_fn = "_symbol_normalise" /\ p_called

\* C24: _symbol_normalise either fails with the Empty-symbol error or
\* returns a non-empty string of upper-case alphanumeric characters, and
\* normalising what it returned gives the same string again.
C24_NeverEmptySymbol ==
    Normalised /\ p_out.err = "" =>
       /\ p_out.symbol # <<>>
       /\ \A i \in 1..Len(p_out.symbol) :
             /\ IsAlnum(p_out.symbol[i])
             /\ Upper(p_out.symbol[i]) = p_out.symbol[i]
       /\ _symbol_normalise(p_out.symbol) = p_out

\* ------------------------------------------------------------------------
\* Claims about the drain loop and the hour counters (Spec)
\* ------------------------------------------------------------------------
\* as_completed is exhausted and no exception has left the loop
LoopDone ==
    /\ ~probe
    /\ ~LoopRaised
    /\ \/ pc = "wait" /\ yielded = HourSet
       \/ Finished

\* how often the drain loop consumed hour h
TimesDrained(h) == Cardinality({i \in 1..Len(drained) : drained[i].hour = h})

\* C25: without cancellation or abort, once every fetch of the export has
\* completed and been handed to the loop, every enumerated hour has been
\* drained exactly once: the cursor equals the number of hours, hour_data is
\* empty, and no hour was consumed twice or left out.
C25_EveryHourDrainedOnce ==
    LoopDone =>
       /\ next_to_process = Len(hours_to_fetch)
       /\ next_to_process = hours_total
       /\ hour_data = {}
       /\ Len(drained) = Len(hours_to_fetch)
       /\ \A i \in 1..Len(hours_to_fetch) :
             TimesDrained(hours_to_fetch[i]) = 1

\* two hours whose fetches completed in reverse order, both drained
C25_Witness ==
    /\ LoopDone
    /\ Finished
    /\ Len(hours_to_fetch) = 2
    /\ arrival = <<hours_to_fetch[2], hours_to_fetch[1]>>
    /\ next_to_process = 2
    /\ hour_data = {}

\* C26: an hour whose decode raised a decompression error is self-healed at
\* most once: its cache entry is deleted, and the one re-fetch that follows
\* is served by the network, not by the cache.
C26_SelfHealRefetchesFromNetwork ==
    \A i \in 1..Len(drained) :
       drained[i].healed =>
          /\ ~drained[i].heal_hit
          /\ TimesDrained(drained[i].hour) = 1

\* C27: every hour that is counted decode_failed and skipped, whether its
\* payload failed to decompress or decompressed to a length that is not a
\* multiple of 20, had one self-heal retry before.
C27_DataErrorsAreHealedFirst ==
    \A i \in 1..Len(drained) :
       drained[i].outcome \in {"decode_error", "heal_failed"}
          => drained[i].healed

\* C28: after all hours are drained every hour is counted in exactly one of
\* missing, empty and fetched, so their sum is the total; every fetched hour
\* that was skipped because its decode or its self-heal failed is counted
\* decode_failed once, so decode_failed + bars_nonempty stays within fetched
\* and the rest are the hours that decoded to zero bars.
C28_EveryHourAccounted ==
    LoopDone =>
       /\ hours_total
             = hours_missing_404 + hours_empty_200 + hours_downloaded
       /\ hours_decode_failed
             = CountOutcome({"decode_error", "heal_failed", "heal_missing"})
       /\ hours_decode_failed + hours_resampled_nonempty <= hours_downloaded
       /\ hours_downloaded - hours_decode_failed - hours_resampled_nonempty
             = CountOutcome({"zero_bars"})

\* the hour consumed i-th had a non-empty payload
HadPayload(i) == drained[i].outcome \notin {"missing", "empty"}

\* C29: the price format of a call is set at most once, by probing the
\* payload of the chronologically first hour whose fetch gave a non-empty
\* payload, whatever the order in which the fetches completed; the value is
\* used unchanged for every later hour, and an hour with a Missing or Empty
\* outcome is never probed.
C29_FormatProbedOnce ==
    ~probe =>
       /\ Cardinality({i \in 1..Len(drained) : drained[i].probed}) <= 1
       /\ \A i \in 1..Len(drained) :
             /\ drained[i].probed <=>
                   /\ HadPayload(i)
                   /\ \A j \in 1..(i - 1) : ~HadPayload(j)
             /\ \A j \in 1..(i - 1) : drained[j].hour < drained[i].hour
             /\ drained[i].probed /\ drained[i].fmt # Unset =>
                   drained[i].fmt =
                      _probe_price_format(results[drained[i].hour]).fmt
             /\ \A j \in 1..(i - 1) :
                   drained[j].fmt # Unset => drained[i].fmt = drained[j].fmt
       /\ drained # <<>> => detected_format = Last(drained).fmt
       /\ drained = <<>> => detected_format = Unset

\* the second hour completed first, the first hour was Missing or Empty, and
\* the format comes from the probe of the second hour
C29_Witness ==
    /\ ~probe
    /\ Len(drained) = 2
    /\ arrival = <<hours_to_fetch[2], hours_to_fetch[1]>>
    /\ ~HadPayload(1)
    /\ ~drained[1].probed
    /\ drained[2].probed
    /\ detected_format = "float"

Candled == p_fn = "_ticks_to_candles" /\ p_called

\* twice the price and twice the volume that price_side selects
Selected2(tick, side) ==
    CASE side = "bid" -> 2 * tick.bid
      [] side = "ask" -> 2 * tick.ask
      [] side = "mid" -> tick.bid + tick.ask

SelectedVol2(tick, side) ==
    CASE side = "bid" -> 2 * tick.bid_vol
      [] side = "ask" -> 2 * tick.ask_vol
      [] side = "mid" -> tick.bid_vol + tick.ask_vol

\* the ticks of the window that starts at t
InWindow(ticks, t, width) ==
    {k \in 1..Len(ticks) : t <= ticks[k].ts /\ ticks[k].ts < t + width}

\* bar is the OHLCV summary of the ticks of its window
SummarisesWindow(bar, ticks, width, side) ==
    LET W == InWindow(ticks, bar.t, width)
    IN  /\ W # {}
        /\ \E k \in W : /\ \A m \in W : ticks[k].ts <= ticks[m].ts
                        /\ bar.open = Selected2(ticks[k], side)
        /\ \E k \in W : /\ \A m \in W : ticks[m].ts <= ticks[k].ts
                        /\ bar.close = Selected2(ticks[k], side)
        /\ \E k \in W : bar.high = Selected2(ticks[k], side)
        /\ \E k \in W : bar.low = Selected2(ticks[k], side)
        /\ \A k \in W : /\ Selected2(ticks[k], side) <= bar.high
                        /\ Selected2(ticks[k], side) >= bar.low
        /\ bar.volume = SumSeq([j \in 1..Cardinality(W) |->
                SelectedVol2(ticks[SortedSeqOf(W)[j]], side)])

\* the bars are one summary per window that holds a tick, in time order
SummarisesAll(bars, ticks, width, side) ==
    /\ \A i \in 1..(Len(bars) - 1) : bars[i].t + width <= bars[i + 1].t
    /\ \A i \in 1..Len(bars) : SummarisesWindow(bars[i], ticks, width, side)
    /\ \A k \in 1..Len(ticks) :
          \E i \in 1..Len(bars) : k \in InWindow(ticks, bars[i].t, width)

\* the start of the window of bars that holds the instant ts
WindowOf(bars, ts, width) ==
    (CHOOSE b \in {bars[i] : i \in 1..Len(bars)} :
        b.t <= ts /\ ts < b.t + width).t

EarliestTs(ticks) ==
    CHOOSE ts \in {ticks[k].ts : k \in 1..Len(ticks)} :
       \A k \in 1..Len(ticks) : ts <= ticks[k].ts

\* C30 as stated: for a non-empty tick list and a recognised side the bars
\* are the OHLCV summaries of fixed-width windows that do not depend on the
\* first tick: without its first tick the list puts every other tick into
\* the same window; an empty list gives an empty result.
C30_WindowsIndependentOfFirstTick ==
    Candled /\ p_args.price_side \in PriceSides =>
       LET ticks == p_args.ticks
           width == p_args.resample_rule
           side == p_args.price_side
           rest == _ticks_to_candles(Tail(ticks), width, side)
       IN  /\ p_out.err = ""
           /\ ticks = <<>> => p_out.bars = <<>>
           /\ ticks # <<>> => SummarisesAll(p_out.bars, ticks, width, side)
           /\ \A k \in 2..Len(ticks) :
                 WindowOf(p_out.bars, ticks[k].ts, width)
                    = WindowOf(rest.bars, ticks[k].ts, width)

\* C30 amended: for a non-empty tick list and a recognised side the bars
\* are the OHLCV summaries of fixed-width windows counted from UTC midnight
\* of the day of the earliest tick; when the width divides the day these
\* are the absolute multiples of the width; an empty list gives an empty
\* result.
C30_WindowsFromMidnightOfFirstDay ==
    Candled /\ p_args.price_side \in PriceSides =>
       LET ticks == p_args.ticks
           width == p_args.resample_rule
           side == p_args.price_side
       IN  /\ p_out.err = ""
           /\ ticks = <<>> => p_out.bars = <<>>
           /\ ticks # <<>> =>
                 /\ SummarisesAll(p_out.bars, ticks, width, side)
                 /\ \A i \in 1..Len(p_out.bars) :
                       /\ (p_out.bars[i].t - FloorDay(EarliestTs(ticks)))
                             % width = 0
                       /\ DAY_MS % width = 0 => p_out.bars[i].t % width = 0

\* mid bars of three ticks that straddle midnight, two of them in the second
\* half-hour window
C30_Witness ==
    /\ Candled
    /\ p_args.price_side = "mid"
    /\ p_args.resample_rule = HALF_HOUR_MS
    /\ Len(p_args.ticks) = 3
    /\ Len(p_out.bars) = 2
    /\ p_out.bars[1].t = DAY_MS - HALF_HOUR_MS
    /\ p_out.bars[2] = [t |-> DAY_MS, open |-> 7, high |-> 7, low |-> 5,
                        close |-> 5, volume |-> 10]

\* C31: every bar the aggregator produces has low <= open <= high,
\* low <= close <= high and volume >= 0, whatever decodable ticks it is
\* given.
C31_BarsWellFormed ==
    Candled /\ p_out.err = "" =>
       \A i \in 1..Len(p_out.bars) :
          LET bar == p_out.bars[i]
          IN  /\ bar.low <= bar.open /\ bar.open <= bar.high
              /\ bar.low <= bar.close /\ bar.close <= bar.high
              /\ bar.volume >= 0

\* the price part of C31 alone
C31_PricesWithinRange ==
    Candled /\ p_out.err = "" =>
       \A i \in 1..Len(p_out.bars) :
          LET bar == p_out.bars[i]
          IN  /\ bar.low <= bar.open /\ bar.open <= bar.high
              /\ bar.low <= bar.close /\ bar.close <= bar.high

\* C32: an export that has observed the cancellation signal does not wait
\* for the hour fetches it has issued: whatever state they are in, queued
\* or in flight, the interruption can leave export_range at once.
C32_CancelledExportDoesNotWait ==
    CancelObserved => ENABLED ExecutorExit

\* ------------------------------------------------------------------------
\* Claims about the fetch pipeline (SpecPool)
\* ------------------------------------------------------------------------
\* _download_bi5 calls under way: those of the pool threads, and the
\* self-heal re-fetch of the calling thread
InProgress ==
    Cardinality(PoolRunning) + (IF pl_pc = "refetch" THEN 1 ELSE 0)

\* C33 as stated: at every moment at most DOWNLOAD_THREADS_PER_INSTRUMENT
\* _download_bi5 calls are in progress, the self-heal re-fetch included.
C33_FetchesWithinPoolSize ==
    InProgress <= DOWNLOAD_THREADS_PER_INSTRUMENT

\* C33 amended: at every moment at most DOWNLOAD_THREADS_PER_INSTRUMENT
\* _download_bi5 calls are in progress on the pool threads; the self-heal
\* re-fetch runs on the calling thread and can add one more.
C33_PoolFetchesWithinPoolSize ==
    /\ Cardinality(PoolRunning) <= DOWNLOAD_THREADS_PER_INSTRUMENT
    /\ InProgress <= DOWNLOAD_THREADS_PER_INSTRUMENT + 1

\* every pool thread is inside a fetch, further hours are queued, and the
\* calling thread is inside the self-heal re-fetch
C33_Witness ==
    /\ Cardinality(PoolRunning) = DOWNLOAD_THREADS_PER_INSTRUMENT
    /\ \E i \in Positions : pl_futures[i] = "pending"
    /\ pl_pc = "refetch"

\* fetched hours not drained yet: the entries of hour_data and the finished
\* futures as_completed has not handed over
Undrained ==
    Cardinality(pl_hour_data)
       + Cardinality({i \in Positions :
                         pl_futures[i] = "finished" /\ i \notin pl_yielded})

\* C34: the number of fetched hours that are not drained yet never exceeds
\* the pool size, whatever the order in which the fetches complete.
C34_UndrainedWithinPoolSize ==
    Undrained <= DOWNLOAD_THREADS_PER_INSTRUMENT

\* ------------------------------------------------------------------------
\* Claims about the threads of an export (Spec)
\* ------------------------------------------------------------------------
\* the aggregation state of the export: detected format, accumulated
\* frames, hour counters, drain cursor and result buffer
aggregation == <<detected_format, all_frames, counters, next_to_process,
                 hour_data>>

\* a step of a pool thread: a future starts or finishes while the calling
\* thread stays where it is
WorkerStep == pc # "start" /\ futures' # futures

PathsMade == p_fn = "_dukascopy_tick_url" /\ p_called

\* the two digits of the zero-based month
MonthField(hour_start) ==
    <<Digit((hour_start.month - 1) \div 10),
      Digit((hour_start.month - 1) % 10)>>

\* the position of the n-th "/" of a string
RECURSIVE SlashAt(_, _, _)
SlashAt(s, n, from) ==
    IF s[from] = "/"
    THEN IF n = 1 THEN from ELSE SlashAt(s, n - 1, from + 1)
    ELSE SlashAt(s, n, from + 1)

\* C36: no other pair of normalised symbol and hour has the same URL, the
\* same cache path or the same temporary path; the temporary path is the
\* cache path of no pair; and the month field of the URL and of the cache
\* path is the zero-based month.
C36_PathsInjective ==
    PathsMade =>
       /\ \A other \in PathInputs :
             other # p_args =>
                /\ _dukascopy_tick_url(other.symbol, other.hour_start)
                      # p_out.url
                /\ CachePathOf(other.symbol, other.hour_start)
                      # p_out.cache_path
                /\ TmpPathOf(CachePathOf(other.symbol, other.hour_start))
                      # p_out.tmp
       /\ \A other \in PathInputs :
             CachePathOf(other.symbol, other.hour_start) # p_out.tmp
       /\ LET third == SlashAt(p_out.url, 3, 1)
          IN  SubSeq(p_out.url, third + 1, third + 2)
                 = MonthField(p_args.hour_start)
       /\ p_out.cache_path[Len(p_out.cache_path) - 2]
             = MonthField(p_args.hour_start)

\* the paths of the last hour of a year: December is month 11
C36_Witness ==
    /\ PathsMade
    /\ p_args = [symbol |-> <<"A", "1">>,
                 hour_start |-> [year |-> 2024, month |-> 12, day |-> 12,
                                 hour |-> 23]]
    /\ p_out.url = <<"BASE_URL", "/", "A", "1", "/", "2", "0", "2", "4", "/",
                     "1", "1", "/", "1", "2", "/", "2", "3", "h_ticks.bi5">>
    /\ p_out.cache_path = <<<<"cache_dir">>, <<"A", "1">>,
                            <<"2", "0", "2", "4">>, <<"1", "1">>,
                            <<"1", "2">>, <<"2", "3", "h_ticks.bi5">>>>
    /\ p_out.tmp[6] = <<"2", "3", "h_ticks.bi5", ".tmp">>

\* ------------------------------------------------------------------------
\* Claims about an export with settled upstream answers (SpecFixed)
\* ------------------------------------------------------------------------
\* What the export makes of the hours from position i on when it takes them
\* one after the other with no pool: fetch the hour, then process it.
\* acc holds the detected format, the frames, the hour counters and the
\* exception that ended the loop.
RECURSIVE OneByOne(_, _, _)
OneByOne(hours, i, acc) ==
    IF i > Len(hours) \/ acc.raise # "" THEN acc
    ELSE LET h == hours[i]
             d == _download_bi5(upstream[h].seed, cache_dir,
                                upstream[h].fetch, DL_RETRIES)
             r == ProcessHour(h, d.ret, acc.fmt, d.file, upstream[h].heal,
                              upstream[h].unlink_ok)
         IN  OneByOne(hours, i + 1,
                [fmt |-> r.fmt,
                 frames |-> IF r.frame # <<>> THEN Append(acc.frames, r.frame)
                            ELSE acc.frames,
                 missing |-> acc.missing + r.missing,
                 empty |-> acc.empty + r.empty,
                 downloaded |-> acc.downloaded + r.downloaded,
                 decode_failed |-> acc.decode_failed + r.decode_failed,
                 nonempty |-> acc.nonempty
                                + (IF r.frame # <<>> THEN 1 ELSE 0),
                 raise |-> r.raise])

NothingYet ==
    [fmt |-> Unset, frames |-> <<>>, missing |-> 0, empty |-> 0,
     downloaded |-> 0, decode_failed |-> 0, nonempty |-> 0, raise |-> ""]

\* the rows the final assembly can write for the frames
Assembled(frames) ==
    {DropDuplicatesKeepLast(Clip(sorted, start_utc, end_utc_inclusive)) :
        sorted \in SortIndex(Flatten(frames))}

\* C37: with the upstream answers and the cache settled before the call, an
\* export in normal mode ends the same way whatever the order in which the
\* pool starts and completes the fetches: the detected format, the frames,
\* the hour counters and the outcome are those of taking the hours one
\* after the other, and the rows written are assembled from those frames.
C37_OutcomeIndependentOfSchedule ==
    Finished /\ ~probe =>
       LET ref == OneByOne(hours_to_fetch, 1, NothingYet)
       IN  /\ detected_format = ref.fmt
           /\ all_frames = ref.frames
           /\ hours_missing_404 = ref.missing
           /\ hours_empty_200 = ref.empty
           /\ hours_downloaded = ref.downloaded
           /\ hours_decode_failed = ref.decode_failed
           /\ hours_resampled_nonempty = ref.nonempty
           /\ IF ref.raise # ""
              THEN pc = "raised" /\ exc = ref.raise /\ out_csv = NoOutput
              ELSE IF ref.frames = <<>>
              THEN pc = "raised" /\ exc = "RuntimeError"
                   /\ out_csv = NoOutput
              ELSE /\ pc = "returned"
                   /\ out_csv.written
                   /\ out_csv.rows \in Assembled(ref.frames)

\* the later hour was handed over first, and both hours are in the output
C37_Witness ==
    /\ Finished /\ ~probe
    /\ Len(arrival) = 2
    /\ arrival[1] > arrival[2]
    /\ Len(all_frames) = 2
    /\ pc = "returned"
    /\ \E i \in 1..Len(drained) : drained[i].healed

\* C38: every cache entry that _download_bi5 leaves at the cache path is
\* zero-length or a complete response body of at least MIN_PAYLOAD_LEN
\* bytes, whatever the interleaving of the callers of that path.
C38_CacheEntriesComplete ==
    fs_cache # Absent =>
       \/ fs_cache = {}
       \/ /\ fs_cache = FullFile
          /\ FileBytes(fs_cache).size >= MIN_PAYLOAD_LEN

\* C38 for calls made in turn by one client: the entry after a call is
\* zero-length or a complete body of at least MIN_PAYLOAD_LEN bytes, a call
\* that returns None leaves the entry as it was, and so does a call served
\* from the cache.
C38_CallsInTurnKeepCacheSound ==
    c_n # "none" =>
       /\ c_last.after # NoFile =>
             \/ c_last.after.size = 0
             \/ /\ c_last.after.size >= MIN_PAYLOAD_LEN
                /\ c_last.after \in {c_last.before, c_last.last.body}
       /\ c_last.ret = None => c_last.after = c_last.before
       /\ c_last.hit => c_last.after = c_last.before
       /\ c_file = c_last.after

\* the export has seen the cancellation event and is leaving, or has left,
\* with the interruption
Interrupted == pc \in {"unwinding", "raised"} /\ exc = "KeyboardInterrupt"

\* C39: once export_range has observed the cancellation signal at a
\* fetch-completion boundary it stores and drains no further hour result
\* (hour_data, the detected format, the frames, the hour counters, the drain
\* cursor and the resample progress stay as they are, beginning with the
\* result whose hand-over observed the signal), it writes no output file,
\* and it ends by raising KeyboardInterrupt, never by returning a path or by
\* the no-data RuntimeError.
C39_NothingDrainedAfterCancel ==
    /\ [](Interrupted => out_csv = NoOutput)
    /\ [][Interrupted' =>
             UNCHANGED <<hour_data, drainState, counters, out_csv>>]_vars
    /\ [][Interrupted => Interrupted']_vars
    /\ [][Interrupted /\ pc' # pc => pc' = "raised"]_vars

\* the interruption left export_range after an hour had been drained, with
\* a fetched hour that was never stored
C39_Witness ==
    /\ pc = "raised"
    /\ exc = "KeyboardInterrupt"
    /\ drained # <<>>
    /\ \E h \in HourSet :
          /\ futures[h] = "finished"
          /\ \A i \in 1..Len(arrival) : arrival[i] # h
====
